---- MODULE Spec2Model ----
\* Repository watcher, enablement check and tab reconciler of the
\* branch-change-tabs extension, for one tracked repository.
\* One JavaScript event-loop turn (the code between two real suspensions) is
\* one action; awaits that resolve in the same turn (an async function that
\* returns without awaiting a host call) are part of the enclosing action.
EXTENDS Integers, FiniteSets, Sequences, TLC

\* ---------------------------------------------------------------- bounds
MaxHandlers == 2        \* handleRepositoryChange invocations in flight at once
MaxTimers == 2          \* timer handles the host can have armed at once
NumFiles == 2           \* files of the repository that a diff can list
MaxTriggers == 2        \* handleRepositoryChange invocations that get past the branch test
MaxUserActions == 1     \* tabs the user opens, focuses or closes
MaxCommands == 1        \* runs of the toggle-ignore command

Slots == 1..MaxHandlers
TimerIds == 1..MaxTimers
Files == 1..NumFiles
\* Files of a second tracked repository, which share the editor's tabs
OtherFiles == {NumFiles + 1}
AllFiles == Files \cup OtherFiles
NoTimer == 0
NoFile == 0
\* showInputBox resolved to undefined (dismissed)
NoInput == -1
\* branchTabs.maxFilesToOpen as shipped
DefaultMaxFilesToOpen == 10
Undefined == "undefined"
BranchNames == {"main", "feature-1"}

\* ChangedFile.kind of a file in the diff (an input of the pass)
KindOf(f) == IF f = 1 THEN "modified" ELSE "added"

VARIABLES
  HEAD,           \* repo.state.HEAD?.name
  lastBranch,     \* RepositoryTrackingState.lastBranch
  pendingTimer,   \* RepositoryTrackingState.pendingTimer
  openedFiles,    \* RepositoryTrackingState.openedFiles
  timers,         \* timer handles armed in the host
  settings,       \* the branchTabs.* configuration
  repositoryEnabledCache,
  storedDisabled, \* globalState repoDisabled:<key>
  tabOpen,        \* files that have a tab
  tabPinned,      \* files whose tab is pinned
  tabOwner,       \* who created the tab of a file: "user", "ext" or "none"
  activeEditor,   \* file of the active editor, or NoFile
  handlers,       \* the invocations of handleRepositoryChange in flight
  burstInvocations, \* handler invocations since the current burst of notifications began
  onStartupBranch, \* HEAD has named no branch other than the one of tracking time
  triggers,       \* handler invocations that got past the branch test so far
  userActs,       \* tab operations of the user so far
  commands,       \* runs of the toggle-ignore command so far
  ignored,        \* workspaceState ignoredFilesByRepo[<repo>]
  cmd,            \* the toggle-ignore command in flight
  escaped,        \* a rejection left handleRepositoryChange uncaught
  other,          \* RepositoryTrackingState of the second repository
  call            \* a function of the resolver under call: arguments, then result

vars == <<HEAD, lastBranch, pendingTimer, openedFiles, timers, settings,
          repositoryEnabledCache, storedDisabled, tabOpen, tabPinned, tabOwner,
          activeEditor, handlers, burstInvocations, onStartupBranch, triggers,
          userActs, commands, ignored, cmd, escaped, other, call>>

tabVars == <<tabOpen, tabPinned, tabOwner, activeEditor>>

\* A slot with no invocation in it
Fresh == [pc |-> "idle", cur |-> Undefined, head |-> Undefined, ign |-> {},
          rest |-> {}, toClose |-> {}, gone |-> {},
          max |-> 0, count |-> 0, shown |-> {}, val |-> 0]

NoCommand == [pc |-> "idle", file |-> NoFile]

\* No function of the resolver is under call
NoCall == [fn |-> "none"]

SettingsDomain ==
  [excludedBranches : {{"main", "master"}},
   closeAllBeforeOpen : BOOLEAN,
   closePinnedTabsOnBranchChange : BOOLEAN,
   closeAllOnExcludedBranch : BOOLEAN,
   pinModifiedFiles : BOOLEAN,
   pinNewlyTrackedFiles : BOOLEAN,
   promptOnNewRepository : BOOLEAN,
   disabledRepositories : {"empty", "listed", "others"},
   maxFilesToOpen : (-1 .. NumFiles) \cup {DefaultMaxFilesToOpen}]

\* The configurations explored: modified files are pinned and added ones are
\* not; every close policy on a repository enabled in an earlier session, and
\* the default close policy on a repository never seen before (prompt pending)
\* or disabled in an earlier session
InitialSettings ==
  {x \in SettingsDomain :
     /\ x.disabledRepositories = "empty"
     /\ x.promptOnNewRepository
     /\ x.pinModifiedFiles
     /\ ~x.pinNewlyTrackedFiles
     /\ x.maxFilesToOpen = DefaultMaxFilesToOpen}

DefaultClosePolicy(x) ==
  /\ x.closeAllBeforeOpen
  /\ ~x.closePinnedTabsOnBranchChange
  /\ x.closeAllOnExcludedBranch

\* activate: trackRepository has run; verifyRepositoryState set lastBranch to
\* HEAD's name of that time (undefined while git has not resolved HEAD)
Activated(configurations) ==
  /\ HEAD \in BranchNames \cup {Undefined}
  /\ lastBranch = HEAD
  /\ pendingTimer = NoTimer
  /\ openedFiles = {}
  /\ timers = {}
  /\ settings \in configurations
  /\ repositoryEnabledCache = "unset"
  /\ storedDisabled \in {"unset", "yes", "no"}
  /\ storedDisabled # "no" => DefaultClosePolicy(settings)
  /\ ignored \in {{}, {NumFiles}}
  /\ cmd = NoCommand
  /\ tabOpen = {}
  /\ tabPinned = {}
  /\ tabOwner = [f \in AllFiles |-> "none"]
  /\ activeEditor = NoFile
  /\ handlers = [h \in Slots |-> Fresh]
  /\ burstInvocations = 0
  /\ onStartupBranch = TRUE
  /\ triggers = 0
  /\ userActs = 0
  /\ commands = 0
  /\ escaped = FALSE
  /\ other = [lastBranch |-> "main", pendingTimer |-> NoTimer, openedFiles |-> {}]

\* ... with no function of the resolver under call
InitWith(configurations) == call = NoCall /\ Activated(configurations)

Init == InitWith(InitialSettings)

\* ------------------------------------------------------------ the host
\* The editor that is active once the tabs in `closed` are gone
ActiveAfterClose(closed, a) ==
  IF activeEditor \notin closed THEN a = activeEditor
  ELSE IF tabOpen \ closed = {} THEN a = NoFile
  ELSE a \in tabOpen \ closed

\* A Tab object collected by a close step is dead once its tab was closed
MarkGone(hs, closed) ==
  [h \in Slots |-> [hs[h] EXCEPT !.gone = @ \cup (hs[h].toClose \cap closed)]]

\* tabGroups.close(tabs): the tabs of the files in `closed` go away
CloseTabs(closed) ==
  /\ tabOpen' = tabOpen \ closed
  /\ tabPinned' = tabPinned \ closed
  /\ tabOwner' = [f \in AllFiles |-> IF f \in closed THEN "none" ELSE tabOwner[f]]
  /\ \E a \in AllFiles \cup {NoFile} :
       /\ ActiveAfterClose(closed, a)
       /\ activeEditor' = a

\* showTextDocument(doc, {preview: false, viewColumn: Active}): the file's tab
\* is created if it has none, and becomes the active editor
ShowTab(f, who) ==
  /\ tabOpen' = tabOpen \cup {f}
  /\ tabOwner' = [tabOwner EXCEPT ![f] = IF f \in tabOpen THEN @ ELSE who]
  /\ activeEditor' = f
  /\ UNCHANGED tabPinned

\* ------------------------------------------------- enablement (synchronous part)
\* isRepositoryEnabledOnInitialCheckout up to the prompt: either it returns
\* (susp = FALSE) with result res, or it shows the prompt (susp = TRUE).
EnableCall(cache, stored, prompt) ==
  IF settings.disabledRepositories # "empty"
  THEN [susp |-> FALSE, res |-> settings.disabledRepositories # "listed",
        cache |-> IF settings.disabledRepositories # "listed" THEN "yes" ELSE "no"]
  ELSE IF cache # "unset"
  THEN [susp |-> FALSE, res |-> cache = "yes", cache |-> cache]
  ELSE IF stored # "unset"
  THEN [susp |-> FALSE, res |-> stored = "no",
        cache |-> IF stored = "no" THEN "yes" ELSE "no"]
  ELSE IF ~prompt
  THEN [susp |-> FALSE, res |-> TRUE, cache |-> "yes"]
  ELSE [susp |-> TRUE, res |-> TRUE, cache |-> cache]

\* ------------------------------------------------------ tab reconciler
\* The tabs a close step collects: tracked tabs, or only the pinned ones
TabsToClose(pinnedOnly) ==
  IF pinnedOnly THEN tabOpen \cap tabPinned \cap openedFiles
  ELSE tabOpen \cap openedFiles

\* (mutant) the pinned-only close step clears the tracking set as well
TrackedAfterClose_clears(pinnedOnly, closed, opened) == {}

\* openedFiles after a close step that closed `closed`
TrackedAfterClose(pinnedOnly, closed, opened) ==
  IF pinnedOnly THEN opened \ closed ELSE {}

\* What a turn of a handler leaves behind: its record, the enablement cache
\* and openedFiles
Out(rec, c, o) == [h |-> rec, cache |-> c, opened |-> o]

\* Infinity of `maxFilesToOpen > 0 ? maxFilesToOpen : Infinity`: more than
\* any number of files
Infinity == NumFiles + 1

\* maxToOpen of a pass that read maxFilesToOpen = max
MaxToOpen(max) == IF max > 0 THEN max ELSE Infinity

\* Head of the open loop: the next file, or the end of the pass when the list
\* is exhausted or openedCount has reached maxToOpen
LoopHead(rec) ==
  IF rec.rest = {} \/ rec.count >= MaxToOpen(rec.max) THEN Fresh
  ELSE [rec EXCEPT !.pc = "open"]

\* openRepositoryChangedFiles after its close step: the optional hard reset,
\* then the open loop
AfterCloseStep(rec) ==
  LET r == [rec EXCEPT !.toClose = {}, !.gone = {}]
  IN IF settings.closeAllBeforeOpen THEN [r EXCEPT !.pc = "closeAll"] ELSE LoopHead(r)

\* The close step of a pass, up to the await of tabGroups.close
CloseStepEntry(rec, c) ==
  LET pinnedOnly == settings.closePinnedTabsOnBranchChange
      cand == TabsToClose(pinnedOnly)
  IN IF openedFiles = {} THEN Out(AfterCloseStep(rec), c, openedFiles)
     ELSE IF cand = {}
     THEN Out(AfterCloseStep(rec), c, TrackedAfterClose(pinnedOnly, {}, openedFiles))
     ELSE Out([rec EXCEPT !.pc = "closePass", !.toClose = cand], c, openedFiles)

\* closeExtensionOpenedFiles called for an excluded branch
CloseExcludedEntry(rec, c) ==
  LET cand == TabsToClose(FALSE)
  IN IF openedFiles = {} THEN Out(Fresh, c, openedFiles)
     ELSE IF cand = {} THEN Out(Fresh, c, {})
     ELSE Out([rec EXCEPT !.pc = "closeExcl", !.toClose = cand], c, openedFiles)

\* The limit gate: more survivors than a positive maxFilesToOpen
LimitExceeded(n, max) == max > 0 /\ n > max

\* (mutant) the gate truncates silently: no confirmation prompt
LimitGate_noPrompt(rec, c) == CloseStepEntry(rec, c)

\* openRepositoryChangedFiles from the limit gate on: the confirmation prompt,
\* or the close step
LimitGate(rec, c) ==
  IF LimitExceeded(Cardinality(rec.rest), rec.max)
  THEN Out([rec EXCEPT !.pc = "limit"], c, openedFiles)
  ELSE CloseStepEntry(rec, c)

\* ---------------------------------------------------------- the watcher
BranchExcluded(b) == b \in settings.excludedBranches

\* (mutant) the test forgets the absent branch name
BranchUnchanged_noAbsent(cur, prev) == cur = prev

\* handleRepositoryChange's test for "nothing to do"
BranchUnchanged(cur, prev) == cur = Undefined \/ cur = prev

\* (mutant) the pass works on the branch the handler saw when the timer elapsed
PassHead_captured(rec) == rec.cur

\* The branch a pass works on: repo.state.HEAD?.name read inside the pass
PassHead(rec) == HEAD

\* openRepositoryChangedFiles from its call to the await of resolveBaseRef
PassEntry(rec0, c, stored, prompt) ==
  LET rec == [rec0 EXCEPT !.ign = ignored, !.max = settings.maxFilesToOpen] IN
  IF BranchExcluded(HEAD) THEN Out(Fresh, c, openedFiles)
  ELSE LET e == EnableCall(c, stored, prompt)
       IN IF e.susp THEN Out([rec EXCEPT !.pc = "enable2"], e.cache, openedFiles)
          ELSE IF ~e.res THEN Out(Fresh, e.cache, openedFiles)
          ELSE Out([rec EXCEPT !.pc = "resolve", !.head = PassHead(rec)], e.cache,
                   openedFiles)

\* handleRepositoryChange after its enablement check returned `res`
AfterEnable1(rec, res, c, stored, prompt) ==
  IF ~res THEN Out(Fresh, c, openedFiles)
  ELSE IF BranchExcluded(rec.cur)
  THEN IF settings.closeAllOnExcludedBranch THEN CloseExcludedEntry(rec, c)
       ELSE Out(Fresh, c, openedFiles)
  ELSE PassEntry(rec, c, stored, prompt)

\* (mutant) a new invocation takes the place of a running one
FreeSlot_replaces(h) == h = 1

\* `void handleRepositoryChange(...)`: a new invocation next to the running ones
FreeSlot(h) ==
  /\ handlers[h].pc = "idle"
  /\ \A g \in Slots : g < h => handlers[g].pc # "idle"

Apply(h, out) ==
  /\ handlers' = [handlers EXCEPT ![h] = out.h]
  /\ repositoryEnabledCache' = out.cache
  /\ openedFiles' = out.opened

\* (mutant) the listener arms a new timer without clearing the pending one
ClearTimeout_skipped(ts, t) == ts

\* clearTimeout(state.pendingTimer) when a timer is pending
ClearTimeout(ts, t) == ts \ {t}

\* repo.state.onDidChange listener of trackRepository; setTimeout returns the
\* lowest handle that is not armed
Notify ==
  /\ \E t \in TimerIds :
       /\ t \notin ClearTimeout(timers, pendingTimer)
       /\ \A u \in TimerIds : u < t => u \in ClearTimeout(timers, pendingTimer)
       /\ timers' = ClearTimeout(timers, pendingTimer) \cup {t}
       /\ pendingTimer' = t
  /\ burstInvocations' = IF timers = {} THEN 0 ELSE burstInvocations
  /\ UNCHANGED <<call, escaped, other, ignored, cmd, commands,
                 HEAD, lastBranch, openedFiles, settings,
                 repositoryEnabledCache, storedDisabled, tabVars, handlers,
                 onStartupBranch, triggers, userActs>>

\* (mutant) only a named branch is remembered
ObservedBranch_namedOnly(currentBranch, previousBranch) ==
  IF currentBranch = Undefined THEN previousBranch ELSE currentBranch

\* state.lastBranch = currentBranch, assigned before the branch test
ObservedBranch(currentBranch, previousBranch) == currentBranch

\* The timer callback and handleRepositoryChange up to its first suspension
TimerFire(t) ==
  /\ t \in timers
  /\ timers' = timers \ {t}
  /\ pendingTimer' = NoTimer
  /\ lastBranch' = ObservedBranch(HEAD, lastBranch)
  /\ burstInvocations' = burstInvocations + 1
  /\ IF BranchUnchanged(HEAD, lastBranch)
     THEN UNCHANGED <<handlers, repositoryEnabledCache, openedFiles, triggers>>
     ELSE \E h \in Slots :
            /\ FreeSlot(h)
            /\ triggers < MaxTriggers
            /\ triggers' = triggers + 1
            /\ LET rec == [Fresh EXCEPT !.cur = HEAD]
                   e == EnableCall(repositoryEnabledCache, storedDisabled,
                                   settings.promptOnNewRepository)
               IN IF e.susp
                  THEN Apply(h, Out([rec EXCEPT !.pc = "enable1"], e.cache, openedFiles))
                  ELSE Apply(h, AfterEnable1(rec, e.res, e.cache, storedDisabled,
                                             settings.promptOnNewRepository))
  /\ UNCHANGED <<call, escaped, other, ignored, cmd, commands,
                 HEAD, settings, storedDisabled, tabVars,
                 onStartupBranch, userActs>>

PromptChoices == {"dismissed", "Enable", "Always Enable", "Disable", "Don't Ask Again"}

PromptResult(choice) == choice # "Disable"

CacheAfterPrompt(choice, c) ==
  IF choice \in {"Enable", "Always Enable"} THEN "yes"
  ELSE IF choice = "Disable" THEN "no" ELSE c

StoredAfterPrompt(choice, st) ==
  IF choice \in {"Enable", "Always Enable"} THEN "no"
  ELSE IF choice = "Disable" THEN "yes" ELSE st

\* The user answers (or dismisses) the enable/disable prompt; the function
\* stores the decision and its caller goes on
AnswerPrompt(h, choice) ==
  LET rec == handlers[h]
      c2 == CacheAfterPrompt(choice, repositoryEnabledCache)
      s2 == StoredAfterPrompt(choice, storedDisabled)
      p2 == IF choice = "Always Enable" THEN FALSE ELSE settings.promptOnNewRepository
  IN /\ rec.pc \in {"enable1", "enable2"}
     /\ storedDisabled' = s2
     /\ settings' = [settings EXCEPT !.promptOnNewRepository = p2]
     /\ IF rec.pc = "enable1"
        THEN Apply(h, AfterEnable1(rec, PromptResult(choice), c2, s2, p2))
        ELSE IF PromptResult(choice)
        THEN Apply(h, Out([rec EXCEPT !.pc = "resolve", !.head = PassHead(rec)],
                          c2, openedFiles))
        ELSE Apply(h, Out(Fresh, c2, openedFiles))
     /\ UNCHANGED <<call, escaped, other, ignored, cmd, commands,
                 HEAD, lastBranch, pendingTimer, timers, tabVars,
                    burstInvocations, onStartupBranch, triggers, userActs>>

\* Base ref, diff and filters of a pass: they end the pass, or leave the
\* non-empty list of files to open; then the limit gate and the close step
Resolve(h) ==
  LET rec == handlers[h]
  IN /\ rec.pc = "resolve"
     /\ \/ Apply(h, Out(Fresh, repositoryEnabledCache, openedFiles))
        \/ /\ rec.head # Undefined
           /\ \E files \in SUBSET (Files \ rec.ign) \ {{}} :
                Apply(h, LimitGate([rec EXCEPT !.rest = files, !.cur = Undefined,
                                         !.head = Undefined, !.ign = {}],
                                   repositoryEnabledCache))
     /\ UNCHANGED <<call, escaped, other, ignored, cmd, commands,
                 HEAD, lastBranch, pendingTimer, timers, settings, storedDisabled,
                    tabVars, burstInvocations, onStartupBranch, triggers, userActs>>

\* tabGroups.close returned: the collected tabs are closed and the tracking
\* set is cleared (or pruned)
CloseDone(h) ==
  LET rec == handlers[h]
      closed == rec.toClose \ rec.gone
      hs == MarkGone(handlers, closed)
  IN /\ rec.pc \in {"closePass", "closeExcl"}
     /\ CloseTabs(closed)
     /\ IF rec.pc = "closeExcl"
        THEN /\ handlers' = [hs EXCEPT ![h] = Fresh]
             /\ openedFiles' = TrackedAfterClose(FALSE, rec.toClose, openedFiles)
        ELSE /\ handlers' = [hs EXCEPT ![h] = AfterCloseStep(rec)]
             /\ openedFiles' = TrackedAfterClose(settings.closePinnedTabsOnBranchChange,
                                                 rec.toClose, openedFiles)
     /\ UNCHANGED <<call, escaped, other, ignored, cmd, commands,
                 HEAD, lastBranch, pendingTimer, timers, settings,
                    repositoryEnabledCache, storedDisabled, burstInvocations,
                    onStartupBranch, triggers, userActs>>

\* workbench.action.closeAllEditors returned
CloseAllEditors(h) ==
  LET rec == handlers[h]
  IN /\ rec.pc = "closeAll"
     /\ \E keepPinned \in BOOLEAN :
          LET closed == IF keepPinned THEN tabOpen \ tabPinned ELSE tabOpen
              hs == MarkGone(handlers, closed)
          IN /\ CloseTabs(closed)
             /\ handlers' = [hs EXCEPT ![h] = LoopHead(hs[h])]
     /\ UNCHANGED <<call, escaped, other, ignored, cmd, commands,
                 HEAD, lastBranch, pendingTimer, openedFiles, timers, settings,
                    repositoryEnabledCache, storedDisabled, burstInvocations,
                    onStartupBranch, triggers, userActs>>

\* ------------------------------------------------------- the limit gate
\* What the actions of the limit gate and the rejections leave alone
watcherVars == <<HEAD, lastBranch, pendingTimer, timers, burstInvocations,
                 onStartupBranch, triggers>>
editorVars == <<userActs, commands, ignored, cmd, other, call>>

LimitChoices == {"Open", "Cancel", "dismissed"}

\* promptUserOnFileLimitExceeded returned `choice`: anything but Open ends the
\* pass; Open goes on to the question about changing the maximum
AfterLimitPrompt(rec, choice) ==
  IF choice = "Open" THEN [rec EXCEPT !.pc = "scope"] ELSE Fresh

\* The user answers (or dismisses) "Open up to <limit> files?"
LimitAnswer(h, choice) ==
  /\ handlers[h].pc = "limit"
  /\ handlers' = [handlers EXCEPT ![h] = AfterLimitPrompt(handlers[h], choice)]
  /\ UNCHANGED <<watcherVars, editorVars, tabVars, openedFiles, settings,
                 repositoryEnabledCache, storedDisabled, escaped>>

ScopeChoices == {"No", "This Workspace", "User (Global)", "dismissed"}

\* The user answers "Change the max files to open?": a scope leads to the
\* input box, anything else to the close step
ScopeAnswer(h, choice) ==
  LET rec == handlers[h]
  IN /\ rec.pc = "scope"
     /\ IF choice \in {"This Workspace", "User (Global)"}
        THEN Apply(h, Out([rec EXCEPT !.pc = "input"], repositoryEnabledCache,
                          openedFiles))
        ELSE Apply(h, CloseStepEntry(rec, repositoryEnabledCache))
     /\ UNCHANGED <<watcherVars, editorVars, tabVars, settings, storedDisabled,
                    escaped>>

\* Values the input box accepts (whole numbers, 0 or greater)
InputValues == 0 .. NumFiles

\* The input box returns a value, which config.update will store, or it is
\* dismissed and the close step follows
InputAnswer(h, v) ==
  LET rec == handlers[h]
  IN /\ rec.pc = "input"
     /\ IF v = NoInput
        THEN Apply(h, CloseStepEntry(rec, repositoryEnabledCache))
        ELSE Apply(h, Out([rec EXCEPT !.pc = "update", !.val = v],
                          repositoryEnabledCache, openedFiles))
     /\ UNCHANGED <<watcherVars, editorVars, tabVars, settings, storedDisabled,
                    escaped>>

\* config.update("maxFilesToOpen", parsed) returned; the close step follows
UpdateDone(h) ==
  LET rec == handlers[h]
  IN /\ rec.pc = "update"
     /\ settings' = [settings EXCEPT !.maxFilesToOpen = rec.val]
     /\ Apply(h, CloseStepEntry([rec EXCEPT !.val = 0], repositoryEnabledCache))
     /\ UNCHANGED <<watcherVars, editorVars, tabVars, storedDisabled, escaped>>

\* ----------------------------------------------------------- rejections
\* tabGroups.close rejects: nothing catches it in closeExtensionOpenedFiles,
\* closeExtensionPinnedFiles, openRepositoryChangedFiles or
\* handleRepositoryChange, whose promise the timer callback discards
CloseFail(h) ==
  /\ handlers[h].pc \in {"closePass", "closeExcl"}
  /\ handlers' = [handlers EXCEPT ![h] = Fresh]
  /\ escaped' = TRUE
  /\ UNCHANGED <<watcherVars, editorVars, tabVars, openedFiles, settings,
                 repositoryEnabledCache, storedDisabled>>

\* workbench.action.closeAllEditors rejects, uncaught in the same way
CloseAllEditorsFail(h) ==
  /\ handlers[h].pc = "closeAll"
  /\ handlers' = [handlers EXCEPT ![h] = Fresh]
  /\ escaped' = TRUE
  /\ UNCHANGED <<watcherVars, editorVars, tabVars, openedFiles, settings,
                 repositoryEnabledCache, storedDisabled>>

Min(S) == CHOOSE x \in S : \A y \in S : x <= y

ShouldPin(f) ==
  IF KindOf(f) = "modified" THEN settings.pinModifiedFiles
  ELSE settings.pinNewlyTrackedFiles

\* openedCount += 1
Counted(rec) == [rec EXCEPT !.count = @ + 1]

\* The handler record once the loop is done with the file at hand
NextFile(rec) == LoopHead([rec EXCEPT !.rest = @ \ {Min(rec.rest)}])

\* One iteration of the open loop up to the pin command: openTextDocument
\* and showTextDocument succeed, or one of them throws and the file is skipped
OpenFile(h) ==
  LET rec == handlers[h]
      f == Min(rec.rest)
  IN /\ rec.pc = "open"
     /\ \/ /\ handlers' = [handlers EXCEPT ![h] = NextFile(rec)]
           /\ UNCHANGED <<openedFiles, tabVars>>
        \/ /\ ShowTab(f, "ext")
           /\ LET seen == [rec EXCEPT !.shown = @ \cup {f}]
              IN IF ShouldPin(f)
                 THEN /\ handlers' = [handlers EXCEPT ![h] = [seen EXCEPT !.pc = "pin"]]
                      /\ UNCHANGED openedFiles
                 ELSE /\ handlers' = [handlers EXCEPT ![h] = NextFile(Counted(seen))]
                      /\ openedFiles' = openedFiles \cup {f}
     /\ UNCHANGED <<call, escaped, other, ignored, cmd, commands,
                 HEAD, lastBranch, pendingTimer, timers, settings,
                    repositoryEnabledCache, storedDisabled, burstInvocations,
                    onStartupBranch, triggers, userActs>>

\* workbench.action.pinEditor returned: it pinned the active editor and the
\* file is tracked, or it threw and the file is skipped
PinEditor(h) ==
  LET rec == handlers[h]
      f == Min(rec.rest)
  IN /\ rec.pc = "pin"
     /\ \/ /\ tabPinned' = tabPinned \cup ({activeEditor} \ {NoFile})
           /\ openedFiles' = openedFiles \cup {f}
           /\ handlers' = [handlers EXCEPT ![h] = NextFile(Counted(rec))]
        \/ /\ UNCHANGED <<tabPinned, openedFiles>>
           /\ handlers' = [handlers EXCEPT ![h] = NextFile(rec)]
     /\ UNCHANGED <<call, escaped, other, ignored, cmd, commands,
                 HEAD, lastBranch, pendingTimer, timers, settings,
                    repositoryEnabledCache, storedDisabled, tabOpen, tabOwner,
                    activeEditor, burstInvocations, onStartupBranch, triggers, userActs>>

\* ------------------------------------------------------ the environment
\* git moves HEAD (checkout, detach, or HEAD becoming known after startup)
BranchSwitch(b) ==
  /\ b # HEAD
  /\ HEAD' = b
  /\ onStartupBranch' = (onStartupBranch /\ HEAD = Undefined)
  /\ UNCHANGED <<call, escaped, other, ignored, cmd, commands,
                 lastBranch, pendingTimer, openedFiles, timers, settings,
                 repositoryEnabledCache, storedDisabled, tabVars, handlers,
                 burstInvocations, triggers, userActs>>

UserOpen(f) ==
  /\ f \notin tabOpen
  /\ userActs < MaxUserActions
  /\ userActs' = userActs + 1
  /\ ShowTab(f, "user")
  /\ UNCHANGED <<call, escaped, other, ignored, cmd, commands,
                 HEAD, lastBranch, pendingTimer, openedFiles, timers, settings,
                 repositoryEnabledCache, storedDisabled, handlers,
                 burstInvocations, onStartupBranch, triggers>>

UserFocus(f) ==
  /\ f \in tabOpen
  /\ userActs < MaxUserActions
  /\ userActs' = userActs + 1
  /\ f # activeEditor
  /\ activeEditor' = f
  /\ UNCHANGED <<call, escaped, other, ignored, cmd, commands,
                 HEAD, lastBranch, pendingTimer, openedFiles, timers, settings,
                 repositoryEnabledCache, storedDisabled, tabOpen, tabPinned, tabOwner,
                 handlers, burstInvocations, onStartupBranch, triggers>>

UserClose(f) ==
  /\ f \in tabOpen
  /\ userActs < MaxUserActions
  /\ userActs' = userActs + 1
  /\ CloseTabs({f})
  /\ handlers' = MarkGone(handlers, {f})
  /\ UNCHANGED <<call, escaped, other, ignored, cmd, commands,
                 HEAD, lastBranch, pendingTimer, openedFiles, timers, settings,
                 repositoryEnabledCache, storedDisabled, burstInvocations,
                 onStartupBranch, triggers>>

\* toggleIgnoreActiveFile up to the end of its first await: the active file
\* leaves the ignore list (it will be pinned and tracked) or joins it (its tabs
\* will be closed)
ToggleIgnoreActiveFile ==
  /\ cmd.pc = "idle"
  /\ activeEditor # NoFile
  /\ commands < MaxCommands
  /\ commands' = commands + 1
  /\ IF activeEditor \in ignored
     THEN /\ ignored' = ignored \ {activeEditor}
          /\ cmd' = [pc |-> "pin", file |-> activeEditor]
     ELSE /\ ignored' = ignored \cup {activeEditor}
          /\ cmd' = [pc |-> "close", file |-> activeEditor]
  /\ UNCHANGED <<call, escaped, other, HEAD, lastBranch, pendingTimer, openedFiles, timers, settings,
                 repositoryEnabledCache, storedDisabled, tabVars, handlers,
                 burstInvocations, onStartupBranch, triggers, userActs>>

\* The rest of toggleIgnoreActiveFile: pinEditor then openedFiles.add, or
\* closeTabsForFile then openedFiles.delete
ToggleFinish ==
  /\ cmd.pc # "idle"
  /\ cmd' = NoCommand
  /\ IF cmd.pc = "pin"
     THEN /\ tabPinned' = tabPinned \cup ({activeEditor} \ {NoFile})
          /\ openedFiles' = openedFiles \cup {cmd.file}
          /\ UNCHANGED <<tabOpen, tabOwner, activeEditor, handlers>>
     ELSE /\ CloseTabs({cmd.file} \cap tabOpen)
          /\ handlers' = MarkGone(handlers, {cmd.file} \cap tabOpen)
          /\ openedFiles' = openedFiles \ {cmd.file}
  /\ UNCHANGED <<call, escaped, other, HEAD, lastBranch, pendingTimer, timers, settings,
                 repositoryEnabledCache, storedDisabled, burstInvocations,
                 onStartupBranch, triggers, userActs, commands, ignored>>

\* ------------------------------------- functions of the resolver, alone
\* Everything but the function under call
programVars ==
  <<HEAD, lastBranch, pendingTimer, openedFiles, timers, settings,
    repositoryEnabledCache, storedDisabled, tabOpen, tabPinned, tabOwner,
    activeEditor, handlers, burstInvocations, onStartupBranch, triggers,
    userActs, commands, ignored, cmd, escaped, other>>

\* The extension at rest on main, enabled, with the settings as shipped
AtRest ==
  /\ Activated(InitialSettings)
  /\ HEAD = "main" /\ storedDisabled = "no" /\ ignored = {}
  /\ DefaultClosePolicy(settings)

\* ------------------------------------------------------------- strings
\* A string is a sequence of chunks; the chunks " " and tab are white space,
\* "/" is the separator of a ref name, every other chunk is a character or a
\* run of characters that the code never looks into
Space == " "
Tab == "\t"
Newline == "\n"
Slash == "/"
IsWhite(c) == c \in {Space, Tab, Newline}

\* toLowerCase on the letters that occur in the identities tried
LowerChar(c) ==
  CASE c = "A" -> "a" [] c = "B" -> "b" [] c = "N" -> "n" [] OTHER -> c
ToLowerCase(s) == [i \in 1 .. Len(s) |-> LowerChar(s[i])]

\* The value undefined where a string is expected
Absent == <<"(undefined)">>

\* A JavaScript string that is truthy: defined and not empty
Truthy(s) == s # Absent /\ s # <<>>

RECURSIVE TrimStart(_)
TrimStart(s) == IF s # <<>> /\ IsWhite(Head(s)) THEN TrimStart(Tail(s)) ELSE s

RECURSIVE TrimEnd(_)
TrimEnd(s) ==
  IF s # <<>> /\ IsWhite(s[Len(s)]) THEN TrimEnd(SubSeq(s, 1, Len(s) - 1)) ELSE s

\* String.prototype.trim
Trim(s) == TrimEnd(TrimStart(s))

\* String.prototype.endsWith
EndsWith(s, t) ==
  Len(t) <= Len(s) /\ SubSeq(s, Len(s) - Len(t) + 1, Len(s)) = t

\* ------------------------------------------------------- resolveBaseRef
\* (mutant) every ref is taken to exist
DoesRefExist_always(refs, ref) == TRUE

\* doesRefExist: git rev-parse --verify succeeds for the refs of the repository
DoesRefExist(refs, ref) == ref \in refs

\* The tail of resolveBaseRef: main, else master, else undefined
DefaultBase(refs) ==
  IF DoesRefExist(refs, <<"main">>) THEN <<"main">>
  ELSE IF DoesRefExist(refs, <<"master">>) THEN <<"master">>
  ELSE Absent

\* tracksSameBranch
TracksSameBranch(currentBranch, upstreamRef) ==
  \/ Truthy(currentBranch) /\ upstreamRef = currentBranch
  \/ Truthy(currentBranch) /\ EndsWith(upstreamRef, <<Slash>> \o currentBranch)

\* resolveBaseRef from the upstream test on
UpstreamBase(refs, currentBranch, upstream) ==
  IF /\ Truthy(upstream) /\ Len(Trim(upstream)) > 0
     /\ ~TracksSameBranch(currentBranch, Trim(upstream))
     /\ DoesRefExist(refs, Trim(upstream))
  THEN Trim(upstream)
  ELSE DefaultBase(refs)

ResolveBaseRef(refs, configuredBase, currentBranch, upstream) ==
  IF /\ Truthy(configuredBase) /\ Len(Trim(configuredBase)) > 0
     /\ DoesRefExist(refs, Trim(configuredBase))
  THEN Trim(configuredBase)
  ELSE UpstreamBase(refs, currentBranch, upstream)

\* Refs a repository can have, remotes it knows, and the arguments tried
Remotes == {"origin"}
RefNames ==
  {<<"release">>, <<"main">>, <<"master">>, <<"feature-x">>,
   <<"origin", Slash, "feature-x">>, <<"origin", Slash, "main">>,
   <<"origin", Slash, "team", Slash, "feature-x">>}
ConfiguredBases ==
  {<<>>, <<Space>>, <<"release">>, <<Space, "release", Space>>, <<"main">>}
CurrentBranches == {Absent, <<"feature-x">>, <<"main">>}
Upstreams ==
  {Absent, <<>>, <<"feature-x">>, <<"origin", Slash, "feature-x">>,
   <<"origin", Slash, "main">>, <<Space, "origin", Slash, "main", Space>>,
   <<"origin", Slash, "team", Slash, "feature-x">>}

\* ------------------------------------------------------ parseNameStatus
\* The part of s behind its leading tabs
RECURSIVE DropTabs(_)
DropTabs(s) == IF s # <<>> /\ Head(s) = Tab THEN DropTabs(Tail(s)) ELSE s

\* The part of s before its first tab
RECURSIVE UpToTab(_)
UpToTab(s) ==
  IF s = <<>> \/ Head(s) = Tab THEN <<>> ELSE <<Head(s)>> \o UpToTab(Tail(s))

\* line.split(/\t+/): the pieces between runs of tabs
RECURSIVE SplitTabs(_)
SplitTabs(s) ==
  LET piece == UpToTab(s)
      rest == SubSeq(s, Len(piece) + 1, Len(s))
  IN IF rest = <<>> THEN <<piece>>
     ELSE <<piece>> \o SplitTabs(DropTabs(rest))

\* parts[i] of a JavaScript array (i counted from 0): undefined past the end
Part(parts, i) == IF i + 1 <= Len(parts) THEN parts[i + 1] ELSE Absent

\* String.prototype.startsWith for a one-character prefix
StartsWith(s, c) == s # <<>> /\ Head(s) = c

\* parseNameStatus returned undefined
NoRecord == [path |-> Absent, kind |-> "none"]

\* (mutant) a rename or copy is reported under its source path
NewPath_source(parts) == Part(parts, 1)

\* newPath of a rename or copy line
NewPath(parts) == Part(parts, 2)

ParseNameStatus(line) ==
  LET parts == SplitTabs(line)
      status == Part(parts, 0)
      filePath == Part(parts, 1)
  IN IF ~Truthy(status) THEN NoRecord
     ELSE IF StartsWith(status, "R") \/ StartsWith(status, "C")
     THEN IF ~Truthy(NewPath(parts)) THEN NoRecord
          ELSE [path |-> NewPath(parts), kind |-> "modified"]
     ELSE IF ~Truthy(filePath) THEN NoRecord
     ELSE IF status = <<"A">> THEN [path |-> filePath, kind |-> "added"]
     ELSE IF status = <<"M">> THEN [path |-> filePath, kind |-> "modified"]
     ELSE NoRecord

\* getChangedFiles on the lines of git's output: each line is trimmed, blank
\* lines are dropped, the others parsed, and the lines without a record dropped
RECURSIVE ParseLines(_)
ParseLines(lines) ==
  IF lines = <<>> THEN <<>>
  ELSE LET line == Trim(Head(lines))
           entry == IF Len(line) > 0 THEN ParseNameStatus(line) ELSE NoRecord
       IN (IF entry = NoRecord THEN <<>> ELSE <<entry>>) \o ParseLines(Tail(lines))

\* getChangedFiles: the records of the diff, or [] when git fails
GetChangedFiles(failed, lines) == IF failed THEN <<>> ELSE ParseLines(lines)

\* Status codes and paths of the lines tried, and how a line may be padded
StatusCodes ==
  {<<"A">>, <<"M">>, <<"D">>, <<"T">>, <<"U">>, <<"R", "9">>, <<"C", "7">>,
   <<"R">>, <<"A", "M">>, <<"M", "M">>}
PathNames == {<<"x">>, <<"y">>, <<"A">>, <<"d", Slash, "x">>}
PathLists == {<<>>} \cup {<<p>> : p \in PathNames}
               \cup {<<p, q>> : p \in PathNames, q \in PathNames}
Paddings == {<<>>, <<Space>>, <<Tab>>}
BlankLines == {<<>>, <<Space>>, <<Tab, Space>>}

\* A line of git diff --name-status: the status and the paths, one tab apart
RECURSIVE StatusLine(_, _)
StatusLine(status, paths) ==
  IF paths = <<>> THEN status
  ELSE StatusLine(status \o <<Tab>> \o Head(paths), Tail(paths))

\* getChangedFiles is called on an output of one status line between two
\* lines that are blank or absent ...
ParseInit ==
  /\ AtRest
  /\ call \in [fn : {"getChangedFiles"}, failed : BOOLEAN, status : StatusCodes,
               paths : PathLists, before : Paddings, after : Paddings,
               blank : BlankLines, done : {FALSE}, result : {<<>>}]

\* ... and returns
ParseReturns ==
  /\ call.fn = "getChangedFiles" /\ ~call.done
  /\ LET line == call.before \o StatusLine(call.status, call.paths) \o call.after
     IN call' = [call EXCEPT !.done = TRUE,
                             !.result = GetChangedFiles(call.failed,
                                                        <<call.blank, line, call.blank>>)]
  /\ UNCHANGED programVars

ParseSpec == ParseInit /\ [][ParseReturns]_vars

\* resolveBaseRef is called ...
BaseRefInit ==
  /\ AtRest
  /\ call \in [fn : {"resolveBaseRef"}, refs : SUBSET RefNames,
               configuredBase : ConfiguredBases, currentBranch : CurrentBranches,
               upstream : Upstreams, done : {FALSE}, result : {Absent}]

\* ... and returns
BaseRefReturns ==
  /\ call.fn = "resolveBaseRef" /\ ~call.done
  /\ call' = [call EXCEPT !.done = TRUE,
                          !.result = ResolveBaseRef(call.refs, call.configuredBase,
                                                    call.currentBranch, call.upstream)]
  /\ UNCHANGED programVars

BaseRefSpec == BaseRefInit /\ [][BaseRefReturns]_vars

\* ------------------------------------------- the base ref of a pass
\* (mutant) the override is not added to the excluded branches
ExcludedBranches_asConfigured(configured, baseBranch) == configured

\* getSettings: the excluded-branch list, with the trimmed override pushed
\* onto it when it is not empty and not yet in the list
ExcludedBranches(configured, baseBranch) ==
  IF Len(Trim(baseBranch)) > 0 /\ Trim(baseBranch) \notin configured
  THEN configured \cup {Trim(baseBranch)}
  ELSE configured

\* The pass returned before its diff step
NoDiff == <<"(no diff)">>

\* openRepositoryChangedFiles of an enabled repository up to getChangedFiles:
\* the base ref the diff is taken against, or NoDiff when the branch is
\* excluded, has no name, or no base ref is found
DiffBase(refs, configured, baseBranch, headName, upstream) ==
  LET excluded == ExcludedBranches(configured, baseBranch)
      name == IF headName = Absent THEN <<>> ELSE headName
      baseRef == ResolveBaseRef(refs, baseBranch, headName, upstream)
  IN IF name \in excluded THEN NoDiff
     ELSE IF ~Truthy(baseRef) \/ ~Truthy(headName) THEN NoDiff
     ELSE baseRef

\* Values of branchTabs.baseBranch and branchTabs.excludedBranches, and the
\* branches HEAD is on
BaseBranches ==
  ConfiguredBases \cup {<<"feature-x">>, <<Space, "feature-x", Space>>}
ExcludedLists ==
  {{<<"main">>, <<"master">>}, {<<"main">>}, {<<"release">>}, {}}
HeadNames == CurrentBranches \cup {<<"master">>}

\* A pass is started ...
DiffBaseInit ==
  /\ AtRest
  /\ call \in [fn : {"diffBase"}, refs : SUBSET RefNames,
               excludedBranches : ExcludedLists, baseBranch : BaseBranches,
               headName : HeadNames, upstream : Upstreams,
               done : {FALSE}, result : {NoDiff}]

\* ... and reaches its diff step, or returns before it
DiffBaseReturns ==
  /\ call.fn = "diffBase" /\ ~call.done
  /\ call' = [call EXCEPT !.done = TRUE,
                          !.result = DiffBase(call.refs, call.excludedBranches,
                                              call.baseBranch, call.headName,
                                              call.upstream)]
  /\ UNCHANGED programVars

DiffBaseSpec == DiffBaseInit /\ [][DiffBaseReturns]_vars

\* ------------------------------------------- the changed-files view
\* Calls of refresh() and of setVisible() that the host makes at most
MaxRefreshes == 3
MaxVisibilityChanges == 3

\* The view after construction; `owed` tells that refresh() was called and no
\* load has started since, `refreshes` and `shows` count the host's calls
NewView ==
  [fn |-> "view", viewVisible |-> TRUE, refreshTimer |-> FALSE,
   pendingRefresh |-> FALSE, loading |-> FALSE, inflight |-> 0,
   cachedItems |-> FALSE, owed |-> FALSE, refreshes |-> 0, shows |-> 0]

\* `if (this.inflight) return this.inflight`
JoinsInflight(view) == view.inflight > 0

\* loadData: joins the load in flight, or starts loadDataInternal
LoadData(view) ==
  IF JoinsInflight(view) THEN view
  ELSE [view EXCEPT !.loading = TRUE, !.inflight = @ + 1, !.owed = FALSE]

\* refresh(): noted for later when the view is hidden, else the debounce
\* timer is cleared and armed again
RefreshView(view) ==
  IF ~view.viewVisible THEN [view EXCEPT !.pendingRefresh = TRUE]
  ELSE [view EXCEPT !.refreshTimer = TRUE]

\* setVisible(visible)
SetVisibleView(view, visible) ==
  LET seen == [view EXCEPT !.viewVisible = visible]
      cleared == IF ~visible /\ seen.refreshTimer
                 THEN [seen EXCEPT !.refreshTimer = FALSE] ELSE seen
  IN IF visible /\ cleared.pendingRefresh
     THEN RefreshView([cleared EXCEPT !.pendingRefresh = FALSE])
     ELSE cleared

ViewInit == AtRest /\ call = NewView

\* A repository change, an editor change, a settings change or a command
\* calls refresh()
Refresh ==
  /\ call.fn = "view" /\ call.refreshes < MaxRefreshes
  /\ call' = [RefreshView(call) EXCEPT !.owed = TRUE, !.refreshes = @ + 1]
  /\ UNCHANGED programVars

\* onDidChangeVisibility calls setVisible
SetVisible(visible) ==
  /\ call.fn = "view" /\ call.shows < MaxVisibilityChanges
  /\ call' = [SetVisibleView(call, visible) EXCEPT !.shows = @ + 1]
  /\ UNCHANGED programVars

\* The debounce timer elapses: refreshTimer = undefined; void this.loadData()
RefreshTimerFires ==
  /\ call.fn = "view" /\ call.refreshTimer
  /\ call' = LoadData([call EXCEPT !.refreshTimer = FALSE])
  /\ UNCHANGED programVars

\* The host renders the visible view: getChildren loads when nothing is
\* cached and no load is running
GetChildren ==
  /\ call.fn = "view" /\ call.viewVisible
  /\ ~call.cachedItems /\ ~call.loading
  /\ call' = LoadData(call)
  /\ UNCHANGED programVars

\* loadDataInternal settles: the items (or a placeholder) are cached and the
\* finally block clears loading and inflight
LoadSettles ==
  /\ call.fn = "view" /\ call.inflight > 0
  /\ call' = [call EXCEPT !.cachedItems = TRUE, !.loading = FALSE, !.inflight = 0]
  /\ UNCHANGED programVars

ViewNext ==
  \/ Refresh
  \/ \E visible \in BOOLEAN : SetVisible(visible)
  \/ RefreshTimerFires
  \/ GetChildren
  \/ LoadSettles

\* Armed timers elapse, loads settle and the host renders a visible view
ViewFairness ==
  /\ WF_vars(RefreshTimerFires)
  /\ WF_vars(GetChildren)
  /\ WF_vars(LoadSettles)

ViewSpec == ViewInit /\ [][ViewNext]_vars /\ ViewFairness

\* --------------------------------------- filterChangedFilesByCurrentAuthor
AuthorMarker == <<"__BCT_AUTHOR__">>

\* getGitConfigValue: the trimmed output of git config --get, undefined when
\* it is empty or git fails (raw = Absent)
GetGitConfigValue(raw) ==
  IF raw = Absent \/ Len(Trim(raw)) = 0 THEN Absent ELSE Trim(raw)

\* No author: getCurrentAuthor returned undefined
NoAuthor == [email |-> Absent, name |-> Absent]

\* getCurrentAuthor from the two config reads
GetCurrentAuthor(rawEmail, rawName) ==
  [email |-> GetGitConfigValue(rawEmail), name |-> GetGitConfigValue(rawName)]

\* (mutant) identities are compared as written
NormalizeIdentity_exact(value) == IF value = Absent THEN <<>> ELSE Trim(value)

\* normalizeIdentity
NormalizeIdentity(value) ==
  IF value = Absent THEN <<>> ELSE ToLowerCase(Trim(value))

\* doesAuthorMatch
DoesAuthorMatch(fileAuthor, currentAuthor) ==
  IF NormalizeIdentity(currentAuthor.email) # <<>>
  THEN NormalizeIdentity(fileAuthor.email) = NormalizeIdentity(currentAuthor.email)
  ELSE IF NormalizeIdentity(currentAuthor.name) # <<>>
  THEN NormalizeIdentity(fileAuthor.name) = NormalizeIdentity(currentAuthor.name)
  ELSE FALSE

\* tokens[i] ?? "" (i counted from 0)
Token(tokens, i) == IF i + 1 <= Len(tokens) THEN tokens[i + 1] ELSE <<>>

\* The loop of getLatestAuthorByPath from index on: result maps the paths
\* seen so far to the author of the commit that listed them first
RECURSIVE AuthorWalk(_, _, _, _, _)
AuthorWalk(tokens, index, currentAuthor, wanted, result) ==
  IF index >= Len(tokens) THEN result
  ELSE LET token == Token(tokens, index)
           filePath == Trim(token)
       IN IF token = AuthorMarker
          THEN AuthorWalk(tokens, index + 3,
                          [email |-> Trim(Token(tokens, index + 1)),
                           name |-> Trim(Token(tokens, index + 2))],
                          wanted, result)
          ELSE IF \/ currentAuthor = NoAuthor \/ filePath = <<>>
                  \/ filePath \notin wanted \/ filePath \in DOMAIN result
          THEN AuthorWalk(tokens, index + 1, currentAuthor, wanted, result)
          ELSE LET added == [q \in DOMAIN result \cup {filePath} |->
                               IF q = filePath THEN currentAuthor ELSE result[q]]
               IN IF Cardinality(DOMAIN added) = Cardinality(wanted) THEN added
                  ELSE AuthorWalk(tokens, index + 1, currentAuthor, wanted, added)

\* The paths of a list of changed files
PathsOf(files) == {files[i].path : i \in 1 .. Len(files)}

\* getLatestAuthorByPath on the tokens of git log's output
GetLatestAuthorByPath(tokens, paths) ==
  IF paths = {} THEN <<>>
  ELSE AuthorWalk(tokens, 0, NoAuthor, paths, <<>>)

\* (mutant) the filter gives up by letting every file through
FailClosed_open(files) == files

\* `return []` of the author filter
FailClosed(files) == <<>>

\* filterChangedFilesByCurrentAuthor; logFailed: git log threw
FilterChangedFilesByCurrentAuthor(files, rawEmail, rawName, logFailed, tokens) ==
  LET currentAuthor == GetCurrentAuthor(rawEmail, rawName)
      authorByPath == GetLatestAuthorByPath(tokens, PathsOf(files))
      keep(file) == IF file.path \in DOMAIN authorByPath
                    THEN DoesAuthorMatch(authorByPath[file.path], currentAuthor)
                    ELSE FALSE
  IN IF Len(files) = 0 THEN files
     ELSE IF currentAuthor = NoAuthor THEN FailClosed(files)
     ELSE IF logFailed THEN FailClosed(files)
     ELSE SelectSeq(files, keep)

\* The output of git log --format=<marker>%x00%ae%x00%an -z --name-only, split
\* at the NULs: per commit the marker, the email, the name and the paths it
\* lists, the first one behind a newline; an empty piece ends the output
RECURSIVE LogTokens(_)
LogTokens(history) ==
  IF history = <<>> THEN <<<<>>>>
  ELSE LET c == Head(history)
           listed == IF c.files = <<>> THEN <<>>
                     ELSE <<<<Newline>> \o Head(c.files)>> \o Tail(c.files)
       IN <<AuthorMarker, c.email, c.name>> \o listed \o LogTokens(Tail(history))

\* Identities, commits, histories (newest commit first) and lists tried
MaxCommits == 2
ConfigOutputs == {Absent, <<Space>>, <<"a">>, <<Space, "A", Space>>}
NameOutputs == {Absent, <<"n">>, <<"N", Space>>}
CommitEmails == {<<"a">>, <<"A">>, <<"b">>, <<>>}
CommitNames == {<<"n">>, <<"m">>}
CommitFiles == {<<>>, <<<<"x">>>>, <<<<"y">>>>, <<<<"x">>, <<"y">>>>}
Commits == [email : CommitEmails, name : CommitNames, files : CommitFiles]
Histories == UNION {[1 .. n -> Commits] : n \in 0 .. MaxCommits}
ChangedLists ==
  {<<>>, <<[path |-> <<"x">>, kind |-> "modified"]>>,
   <<[path |-> <<"y">>, kind |-> "added"]>>,
   <<[path |-> <<"x">>, kind |-> "modified"], [path |-> <<"y">>, kind |-> "added"]>>}

\* filterChangedFilesByCurrentAuthor is called ...
AuthorInit ==
  /\ AtRest
  /\ call \in [fn : {"filterChangedFilesByCurrentAuthor"}, files : ChangedLists,
               rawEmail : ConfigOutputs, rawName : NameOutputs,
               logFailed : BOOLEAN, history : Histories,
               done : {FALSE}, result : {<<>>}]

\* ... and returns
AuthorReturns ==
  /\ call.fn = "filterChangedFilesByCurrentAuthor" /\ ~call.done
  /\ call' = [call EXCEPT
                !.done = TRUE,
                !.result = FilterChangedFilesByCurrentAuthor(
                             call.files, call.rawEmail, call.rawName,
                             call.logFailed, LogTokens(call.history))]
  /\ UNCHANGED programVars

AuthorSpec == AuthorInit /\ [][AuthorReturns]_vars

\* ------------------------------------------------------- the filter stages
\* (mutant) the change-kind stage keeps the modified files only
FilterByTypeOfChange_modifiedOnly(files, includeModified, includeAdded) ==
  LET modified(file) == file.kind = "modified"
  IN SelectSeq(files, modified)

\* filterByTypeOfChange
FilterByTypeOfChange(files, includeModified, includeAdded) ==
  LET wanted(file) == IF includeModified THEN file.kind = "modified"
                      ELSE file.kind = "added"
  IN IF includeModified /\ includeAdded THEN files
     ELSE IF ~includeModified /\ ~includeAdded THEN <<>>
     ELSE SelectSeq(files, wanted)

\* parseRegex gave undefined
NoRegex == [pattern |-> Absent, global |-> FALSE]

\* trimmed.lastIndexOf(c), counted from 0; -1 when c does not occur
LastIndexOf(s, c) ==
  IF \E i \in 1 .. Len(s) : s[i] = c
  THEN (CHOOSE i \in 1 .. Len(s) : s[i] = c /\ \A k \in (i + 1) .. Len(s) : s[k] # c) - 1
  ELSE -1

\* s.slice(from, to), both counted from 0
Slice(s, from, to) == SubSeq(s, from + 1, to)

\* new RegExp(pattern, flags) accepts the flags: of the flags tried, none or
\* one g; an unknown or repeated letter throws
FlagsAccepted(flags) == flags \in {<<>>, <<"g">>}

\* new RegExp(pattern) accepts the pattern: of the characters tried, all are
\* ordinary ones, which match themselves, but "(", which opens a group that
\* nothing closes and throws
PatternAccepted(pattern) == \A i \in 1 .. Len(pattern) : pattern[i] # "("

\* parseRegex: "/pattern/flags" or "pattern"; what new RegExp throws is
\* caught and gives undefined
ParseRegex(value) ==
  LET trimmed == Trim(value)
      lastSlash == LastIndexOf(trimmed, Slash)
      flags == Slice(trimmed, lastSlash + 1, Len(trimmed))
  IN IF trimmed = <<>> THEN NoRegex
     ELSE IF trimmed[1] = Slash /\ lastSlash > 0
     THEN IF FlagsAccepted(flags) /\ PatternAccepted(Slice(trimmed, 1, lastSlash))
          THEN [pattern |-> Slice(trimmed, 1, lastSlash), global |-> flags = <<"g">>]
          ELSE NoRegex
     ELSE IF PatternAccepted(trimmed) THEN [pattern |-> trimmed, global |-> FALSE]
     ELSE NoRegex

\* regexes.map(parseRegex).filter(Boolean)
RECURSIVE Compile(_)
Compile(regexes) ==
  IF regexes = <<>> THEN <<>>
  ELSE (IF ParseRegex(Head(regexes)) = NoRegex THEN <<>>
        ELSE <<ParseRegex(Head(regexes))>>) \o Compile(Tail(regexes))

\* The pattern matches str at index i (counted from 0)
MatchAt(pattern, str, i) ==
  /\ i + Len(pattern) <= Len(str)
  /\ \A k \in 1 .. Len(pattern) : str[i + k] = pattern[k]

\* Where RegExp.prototype.exec starts to search: at lastIndex for a global
\* regex, at 0 otherwise
SearchStart(regex, lastIndex) == IF regex.global THEN lastIndex ELSE 0

\* regex.test(str) of a regex whose lastIndex is given: the answer, and the
\* lastIndex it leaves (the end of the match, or 0 after a failure, for a
\* global regex)
Test(regex, lastIndex, str) ==
  LET from == SearchStart(regex, lastIndex)
      hits == {i \in from .. Len(str) : MatchAt(regex.pattern, str, i)}
      first == CHOOSE i \in hits : \A k \in hits : i <= k
  IN IF from > Len(str) \/ hits = {}
     THEN [found |-> FALSE, lastIndex |-> IF regex.global THEN 0 ELSE lastIndex]
     ELSE [found |-> TRUE,
           lastIndex |-> IF regex.global THEN first + Len(regex.pattern) ELSE lastIndex]

\* compiled.some((regex) => regex.test(str)) from the k-th regex on: the
\* answer and the lastIndex of every regex afterwards
RECURSIVE Some(_, _, _, _)
Some(compiled, lastIndexes, str, k) ==
  IF k > Len(compiled) THEN [found |-> FALSE, lastIndexes |-> lastIndexes]
  ELSE LET t == Test(compiled[k], lastIndexes[k], str)
           after == [lastIndexes EXCEPT ![k] = t.lastIndex]
       IN IF t.found THEN [found |-> TRUE, lastIndexes |-> after]
          ELSE Some(compiled, after, str, k + 1)

\* files.filter((file) => !compiled.some(...)), file after file
RECURSIVE DropMatching(_, _, _)
DropMatching(files, compiled, lastIndexes) ==
  IF files = <<>> THEN <<>>
  ELSE LET t == Some(compiled, lastIndexes, Head(files).path, 1)
       IN (IF t.found THEN <<>> ELSE <<Head(files)>>)
          \o DropMatching(Tail(files), compiled, t.lastIndexes)

\* filterExcludedFiles
FilterExcludedFiles(files, regexes) ==
  LET compiled == Compile(regexes)
  IN IF Len(compiled) = 0 THEN files
     ELSE DropMatching(files, compiled, [k \in 1 .. Len(compiled) |-> 0])

\* filterExcludedDirectories
FilterExcludedDirectories(files, dirRegexes) ==
  LET compiled == Compile(dirRegexes)
  IN IF Len(compiled) = 0 THEN files
     ELSE DropMatching(files, compiled, [k \in 1 .. Len(compiled) |-> 0])

\* git check-ignore -z --stdin on the paths of files, where git ignores the
\* paths in gitIgnored: the ignored ones among them, each ended by a NUL, and
\* exit code 0; nothing and exit code 1 when none is ignored; failed: the
\* process could not run or exited with another code
RunGitCheckIgnore(files, gitIgnored, failed) ==
  LET reported(file) == file.path \in gitIgnored
      entries == SelectSeq(files, reported)
  IN [failed |-> failed,
      stdout |-> [i \in 1 .. Len(entries) |-> entries[i].path],
      exitCode |-> IF entries = <<>> THEN 1 ELSE 0]

\* new Set(stdout.split("\0").map(trim).filter(nonempty))
IgnoredSet(stdout) ==
  {Trim(stdout[i]) : i \in 1 .. Len(stdout)} \ {<<>>}

\* The test after which filterGitIgnoredFilesDirectories returns its input
KeepsAll(exitCode, reported) == exitCode = 1 \/ reported # {}

\* filterGitIgnoredFilesDirectories
FilterGitIgnoredFilesDirectories(files, gitIgnored, failed) ==
  LET ran == RunGitCheckIgnore(files, gitIgnored, failed)
      reported == IgnoredSet(ran.stdout)
      notIgnored(file) == file.path \notin reported
  IN IF Len(files) = 0 THEN files
     ELSE IF ran.failed THEN files
     ELSE IF ran.stdout = <<>> THEN files
     ELSE IF KeepsAll(ran.exitCode, reported) THEN files
     ELSE SelectSeq(files, notIgnored)

\* (mutant) the workspace stage drops nothing
FilterWorkspaceIgnoredFiles_keepsAll(files, ignoredFiles) == files

\* filterWorkspaceIgnoredFiles
FilterWorkspaceIgnoredFiles(files, ignoredFiles) ==
  LET notIgnored(file) == file.path \notin ignoredFiles
  IN IF ignoredFiles = {} THEN files ELSE SelectSeq(files, notIgnored)

\* filterTextFiles; openable: the paths that exist and open as text
FilterTextFiles(files, openable) ==
  LET opens(file) == file.path \in openable
  IN SelectSeq(files, opens)

\* The stages, and one stage applied under a configuration
StageNames == <<"kind", "directories", "files", "vcs", "workspace", "text">>
ApplyStage(stage, files, cfg) ==
  CASE stage = "kind" ->
         FilterByTypeOfChange(files, cfg.includeModified, cfg.includeAdded)
    [] stage = "directories" -> FilterExcludedDirectories(files, cfg.regexes)
    [] stage = "files" -> FilterExcludedFiles(files, cfg.regexes)
    [] stage = "vcs" -> FilterGitIgnoredFilesDirectories(files, cfg.paths, FALSE)
    [] stage = "workspace" -> FilterWorkspaceIgnoredFiles(files, cfg.paths)
    [] stage = "text" -> FilterTextFiles(files, cfg.paths)

\* Paths, lists of changed files (in the order of git diff) and regex
\* settings tried
PathAd == <<"a", "d">>
PathD == <<"d">>
StagePaths == {PathAd, PathD}
StageLists ==
  {<<>>, <<[path |-> PathAd, kind |-> "modified"]>>,
   <<[path |-> PathD, kind |-> "added"]>>,
   <<[path |-> PathAd, kind |-> "modified"], [path |-> PathD, kind |-> "added"]>>,
   <<[path |-> PathAd, kind |-> "added"], [path |-> PathD, kind |-> "modified"]>>}
RegexValues ==
  {<<"d">>, <<Space, "a">>, <<Slash, "a", Slash>>, <<Slash, "d", Slash, "g">>,
   <<Slash, "d", Slash, "q">>, <<Slash>>, <<Space>>, <<"(">>}
RegexLists ==
  {<<>>} \cup {<<v>> : v \in RegexValues}
         \cup {<<<<Slash, "a", Slash>>, <<Slash, "d", Slash, "g">>>>,
                <<<<"(">>, <<"d">>>>, <<<<Slash, "d", Slash, "q">>, <<Space, "a">>>>,
                <<<<"(">>, <<Slash, "d", Slash, "q">>>>,
                <<<<Slash, "d", Slash, "q">>, <<Slash, "d", Slash, "g">>>>}

\* A stage is called on a list ...
StageInit ==
  /\ AtRest
  /\ call \in [fn : {"stage"},
               stage : {StageNames[i] : i \in 1 .. Len(StageNames)},
               files : StageLists,
               cfg : [includeModified : BOOLEAN, includeAdded : BOOLEAN,
                      regexes : RegexLists, paths : SUBSET StagePaths],
               done : {FALSE}, once : {<<>>}, twice : {<<>>}]

\* ... and returns, and is called again on what it returned
StageReturns ==
  /\ call.fn = "stage" /\ ~call.done
  /\ LET once == ApplyStage(call.stage, call.files, call.cfg)
     IN call' = [call EXCEPT !.done = TRUE, !.once = once,
                             !.twice = ApplyStage(call.stage, once, call.cfg)]
  /\ UNCHANGED programVars

StageSpec == StageInit /\ [][StageReturns]_vars

\* ------------------------------------------------- when git itself fails
\* (mutant) a failed ignore check drops every file
VcsIgnoreStage_failClosed(files, gitIgnored, failed) ==
  IF failed THEN <<>> ELSE FilterGitIgnoredFilesDirectories(files, gitIgnored, FALSE)

\* The VCS-ignore stage of the pass, its check-ignore process failing or not
VcsIgnoreStage(files, gitIgnored, failed) ==
  FilterGitIgnoredFilesDirectories(files, gitIgnored, failed)

\* filterGitIgnoredFilesDirectories is called ...
VcsInit ==
  /\ AtRest
  /\ call \in [fn : {"filterGitIgnoredFilesDirectories"}, files : StageLists,
               gitIgnored : SUBSET StagePaths, failed : BOOLEAN,
               done : {FALSE}, result : {<<>>}]

\* ... and returns
VcsReturns ==
  /\ call.fn = "filterGitIgnoredFilesDirectories" /\ ~call.done
  /\ call' = [call EXCEPT
                !.done = TRUE,
                !.result = VcsIgnoreStage(call.files, call.gitIgnored, call.failed)]
  /\ UNCHANGED programVars

\* Either of the two functions that run git is called, git failing or not
FailureInit == ParseInit \/ VcsInit

FailureSpec == FailureInit /\ [][ParseReturns \/ VcsReturns]_vars

\* ------------------------------------------------- the stages in a pass
\* The repo-relative path of a file, the record git diff gives for it, and
\* the file of a record
FilePath(f) == IF f = 1 THEN PathAd ELSE [k \in 1 .. (f - 1) |-> "d"]
ChangedFileOf(f) == [path |-> FilePath(f), kind |-> KindOf(f)]
FileSet(files) ==
  {f \in Files : \E i \in 1 .. Len(files) : files[i] = ChangedFileOf(f)}
PathSet(S) == {FilePath(f) : f \in S}

\* The records of a set of files in the order of git diff (by path)
RECURSIVE DiffOf(_)
DiffOf(S) ==
  IF S = {} THEN <<>>
  ELSE LET f == CHOOSE x \in S : \A y \in S : x <= y
       IN <<ChangedFileOf(f)>> \o DiffOf(S \ {f})

\* One run of a stage: its name, the list it was given, the list it returned
Ran(stage, given, returned) == [stage |-> stage, given |-> given, returned |-> returned]

\* (mutant) the path patterns are applied before the directory patterns
RegexStages_filesFirst(files, dirRegexes, regexes) ==
  LET kept == FilterExcludedFiles(files, regexes)
  IN <<Ran("files", files, kept),
       Ran("directories", kept, FilterExcludedDirectories(kept, dirRegexes))>>

\* filterExcludedFiles(filterExcludedDirectories(files, ...), ...): the inner
\* call, then the outer one on whatever it returned
RegexStages(files, dirRegexes, regexes) ==
  LET kept == FilterExcludedDirectories(files, dirRegexes)
  IN <<Ran("directories", files, kept),
       Ran("files", kept, FilterExcludedFiles(kept, regexes))>>

\* What a run of stages returned
Returned(runs) == runs[Len(runs)].returned

\* (mutant) an empty list goes on to the limit gate
NothingLeft_goesOn(files) == FALSE

\* `if (!files.length) return`
NothingLeft(files) == Len(files) = 0

\* The pass of handler h is in its resolver, at step `at`
InResolver(h, at) ==
  /\ handlers[h].pc = "resolve"
  /\ call.fn = "openRepositoryChangedFiles" /\ call.at = at

\* The pass returns without having touched a tab
PassEnds(h, runs) ==
  /\ Apply(h, Out(Fresh, repositoryEnabledCache, openedFiles))
  /\ call' = [call EXCEPT !.at = "ended", !.ran = @ \o runs]

\* The pass goes on to the limit gate and the close step with the survivors
PassOpens(h, runs) ==
  /\ Apply(h, LimitGate([handlers[h] EXCEPT !.rest = FileSet(Returned(runs)),
                                             !.cur = Undefined, !.head = Undefined,
                                             !.ign = {}],
                         repositoryEnabledCache))
  /\ call' = [call EXCEPT !.at = "opening", !.ran = @ \o runs]

\* The pass suspends in its resolver
PassAwaits(at, runs) ==
  /\ call' = [call EXCEPT !.at = at, !.ran = @ \o runs]
  /\ UNCHANGED <<handlers, repositoryEnabledCache, openedFiles>>

\* What the steps of the resolver leave alone
resolverFrame == <<escaped, other, ignored, cmd, commands, HEAD, lastBranch,
                   pendingTimer, timers, settings, storedDisabled, tabVars,
                   burstInvocations, onStartupBranch, triggers, userActs>>

\* resolveBaseRef returned: no base ref or no branch name ends the pass
BaseRefResolved(h) ==
  /\ InResolver(h, "baseRef")
  /\ IF ~call.baseRef \/ handlers[h].head = Undefined
     THEN PassEnds(h, <<>>)
     ELSE PassAwaits("diff", <<>>)
  /\ UNCHANGED resolverFrame

\* getChangedFiles returned: the change-kind stage and the two regex stages,
\* up to the call of git check-ignore
DiffListed(h) ==
  LET kind == Ran("kind", call.diff,
                  FilterByTypeOfChange(call.diff, call.includeModifiedFiles,
                                       call.includeNewlyTrackedFiles))
      regex == RegexStages(kind.returned, call.excludedDirectories, call.excludedFiles)
  IN /\ InResolver(h, "diff")
     /\ IF NothingLeft(call.diff) THEN PassEnds(h, <<>>)
        ELSE IF NothingLeft(kind.returned) THEN PassEnds(h, <<kind>>)
        ELSE IF NothingLeft(Returned(regex)) THEN PassEnds(h, <<kind>> \o regex)
        ELSE PassAwaits("vcs", <<kind>> \o regex)
     /\ UNCHANGED resolverFrame

\* git check-ignore returned: the VCS-ignore stage and the workspace stage
IgnoreChecked(h) ==
  LET given == Returned(call.ran)
      vcs == Ran("vcs", given,
                 FilterGitIgnoredFilesDirectories(given, PathSet(call.gitIgnored),
                                                  call.checkFailed))
      workspace == Ran("workspace", vcs.returned,
                       FilterWorkspaceIgnoredFiles(vcs.returned,
                                                   PathSet(handlers[h].ign)))
  IN /\ InResolver(h, "vcs")
     /\ IF NothingLeft(vcs.returned) THEN PassEnds(h, <<vcs>>)
        ELSE IF NothingLeft(workspace.returned) THEN PassEnds(h, <<vcs, workspace>>)
        ELSE IF call.textFilesOnly THEN PassAwaits("text", <<vcs, workspace>>)
        ELSE PassOpens(h, <<vcs, workspace>>)
     /\ UNCHANGED resolverFrame

\* filterTextFiles returned
TextDetected(h) ==
  LET given == Returned(call.ran)
      text == Ran("text", given, FilterTextFiles(given, PathSet(call.openable)))
  IN /\ InResolver(h, "text")
     /\ IF NothingLeft(text.returned) THEN PassEnds(h, <<text>>)
        ELSE PassOpens(h, <<text>>)
     /\ UNCHANGED resolverFrame

\* The settings of the passes explored: nothing is closed on an excluded
\* branch, so that a tab of an earlier pass can still be open and tracked
PipelineSettings ==
  {x \in InitialSettings :
     ~x.closePinnedTabsOnBranchChange /\ ~x.closeAllOnExcludedBranch}

\* What the resolver of a pass is given: the answers of git and of the file
\* system, and the filter settings it reads
PassInputs ==
  [fn : {"openRepositoryChangedFiles"}, at : {"baseRef"}, ran : {<<>>},
   baseRef : BOOLEAN,
   diff : {DiffOf(S) : S \in SUBSET Files},
   latestAuthorOther : {{}, {1}},
   includeModifiedFiles : BOOLEAN, includeNewlyTrackedFiles : BOOLEAN,
   excludedDirectories : {<<>>, <<<<Slash, "d", Slash, "g">>>>},
   excludedFiles : {<<>>, <<<<"a">>>>},
   gitIgnored : SUBSET Files, checkFailed : BOOLEAN,
   textFilesOnly : BOOLEAN, openable : {Files, Files \ {1}, {}}]

\* A pass on feature-1 has passed the enablement check and calls
\* resolveBaseRef; no tab is open, or the pinned tab that an earlier pass
\* opened for file 1 still is
PassStarted ==
  /\ HEAD = "feature-1" /\ lastBranch = "feature-1"
  /\ pendingTimer = NoTimer /\ timers = {}
  /\ settings \in PipelineSettings
  /\ repositoryEnabledCache = "yes" /\ storedDisabled = "no"
  /\ ignored \in {{}, {NumFiles}} /\ cmd = NoCommand
  /\ openedFiles \in {{}, {1}}
  /\ tabOpen = openedFiles /\ tabPinned = openedFiles
  /\ tabOwner = [f \in AllFiles |-> IF f \in openedFiles THEN "ext" ELSE "none"]
  /\ activeEditor = (IF openedFiles = {} THEN NoFile ELSE 1)
  /\ handlers = [h \in Slots |->
                   IF h = 1
                   THEN [Fresh EXCEPT !.pc = "resolve", !.cur = "feature-1",
                                      !.head = "feature-1", !.ign = ignored,
                                      !.max = settings.maxFilesToOpen]
                   ELSE Fresh]
  /\ burstInvocations = 1 /\ onStartupBranch = FALSE /\ triggers = MaxTriggers
  /\ userActs = 0 /\ commands = 0 /\ escaped = FALSE
  /\ other = [lastBranch |-> "main", pendingTimer |-> NoTimer, openedFiles |-> {}]

\* ... on any of the inputs
PipelineInit ==
  /\ PassStarted
  /\ call \in {c \in PassInputs :
                 /\ c.checkFailed => c.gitIgnored = {NumFiles}
                 /\ ~c.textFilesOnly => c.openable = Files}

PipelineNext ==
  \/ \E h \in Slots : BaseRefResolved(h)
  \/ \E h \in Slots : DiffListed(h)
  \/ \E h \in Slots : IgnoreChecked(h)
  \/ \E h \in Slots : TextDetected(h)
  \/ \E h \in Slots : CloseDone(h)
  \/ \E h \in Slots : CloseAllEditors(h)
  \/ \E h \in Slots : OpenFile(h)
  \/ \E h \in Slots : PinEditor(h)

PipelineSpec == PipelineInit /\ [][PipelineNext]_vars

\* ------------------------------------------------------ a pass, end to end
\* The output of git diff --name-status in the example: a modified file
\* (file 1, the example's src/a.ts), an added one (file 2, docs/new.md) and a
\* deleted one (old.txt)
DeletedPath == <<"o">>
ExampleLines ==
  {StatusLine(<<"M">>, <<FilePath(1)>>), StatusLine(<<"A">>, <<FilePath(2)>>),
   StatusLine(<<"D">>, <<DeletedPath>>)}
ExampleOutputs ==
  {out \in [1 .. 4 -> ExampleLines \cup BlankLines] :
     /\ {out[i] : i \in 1 .. 3} = ExampleLines
     /\ out[4] \in BlankLines}

\* The pass of the example has passed the enablement check: both kind flags
\* on, no exclusion pattern, nothing ignored, text files only, both files
\* openable; the list it will get from getChangedFiles is parsed from git's
\* output
ExampleInit ==
  /\ PassStarted
  /\ ignored = {}
  /\ \E out \in ExampleOutputs :
       call = [fn |-> "openRepositoryChangedFiles", at |-> "baseRef", ran |-> <<>>,
               baseRef |-> TRUE, stdout |-> out, diff |-> GetChangedFiles(FALSE, out),
               latestAuthorOther |-> {},
               includeModifiedFiles |-> TRUE, includeNewlyTrackedFiles |-> TRUE,
               excludedDirectories |-> <<>>, excludedFiles |-> <<>>,
               gitIgnored |-> {}, checkFailed |-> FALSE,
               textFilesOnly |-> TRUE, openable |-> {1, 2}]

\* The host does what it is asked in the example: a file that passed text
\* detection opens, and the pin command succeeds
HostSucceeds ==
  \A h \in Slots :
    /\ handlers[h].pc = "open" => Min(handlers[h].rest) \in tabOpen'
    /\ handlers[h].pc = "pin" => Min(handlers[h].rest) \in openedFiles'

ExampleNext ==
  \/ \E h \in Slots : BaseRefResolved(h)
  \/ \E h \in Slots : DiffListed(h)
  \/ \E h \in Slots : IgnoreChecked(h)
  \/ \E h \in Slots : TextDetected(h)
  \/ \E h \in Slots : CloseDone(h)
  \/ \E h \in Slots : CloseAllEditors(h)
  \/ \E h \in Slots : OpenFile(h) /\ HostSucceeds
  \/ \E h \in Slots : PinEditor(h) /\ HostSucceeds

ExampleSpec == ExampleInit /\ [][ExampleNext]_vars

\* --------------------------------------------------- the other repository
\* The watcher of the second repository records the branch it moved to
OtherBranchChange(b) ==
  /\ b # other.lastBranch
  /\ other' = [other EXCEPT !.lastBranch = b]
  /\ UNCHANGED <<call, watcherVars, userActs, commands, ignored, cmd, tabVars,
                 openedFiles, settings, repositoryEnabledCache, storedDisabled,
                 handlers, escaped>>

\* One iteration of the open loop of a pass of the second repository: its
\* file is shown and tracked in its own openedFiles
OtherOpenFile(g) ==
  /\ ~BranchExcluded(other.lastBranch)
  /\ g \notin other.openedFiles
  /\ ShowTab(g, "ext")
  /\ other' = [other EXCEPT !.openedFiles = @ \cup {g}]
  /\ UNCHANGED <<call, watcherVars, userActs, commands, ignored, cmd, openedFiles,
                 settings, repositoryEnabledCache, storedDisabled, handlers,
                 escaped>>

\* Steps of the watcher, its handlers and the repository
WatcherNext ==
  \/ Notify
  \/ \E t \in TimerIds : TimerFire(t)
  \/ \E h \in Slots, choice \in PromptChoices : AnswerPrompt(h, choice)
  \/ \E h \in Slots : Resolve(h)
  \/ \E h \in Slots : CloseDone(h)
  \/ \E h \in Slots : CloseAllEditors(h)
  \/ \E h \in Slots : OpenFile(h)
  \/ \E h \in Slots : PinEditor(h)
  \/ \E b \in BranchNames \cup {Undefined} : BranchSwitch(b)

\* Steps of the user in the editor
EditorNext ==
  \/ \E f \in Files : UserOpen(f)
  \/ \E f \in Files : UserFocus(f)
  \/ \E f \in Files : UserClose(f)
  \/ ToggleIgnoreActiveFile
  \/ ToggleFinish

\* Steps of the limit gate of a pass
LimitNext ==
  \/ \E h \in Slots, choice \in LimitChoices : LimitAnswer(h, choice)
  \/ \E h \in Slots, choice \in ScopeChoices : ScopeAnswer(h, choice)
  \/ \E h \in Slots, v \in InputValues \cup {NoInput} : InputAnswer(h, v)
  \/ \E h \in Slots : UpdateDone(h)

\* Host calls of a pass that reject
FailNext ==
  \/ \E h \in Slots : CloseFail(h)
  \/ \E h \in Slots : CloseAllEditorsFail(h)

\* Steps of the second repository
OtherRepoNext ==
  \/ \E b \in BranchNames : OtherBranchChange(b)
  \/ \E g \in OtherFiles : OtherOpenFile(g)

Next == WatcherNext \/ EditorNext

Spec == Init /\ [][Next]_vars

\* Timers fire, prompts are answered and host calls return
Fairness ==
  /\ WF_vars(\E t \in TimerIds : TimerFire(t))
  /\ \A h \in Slots :
       /\ WF_vars(\E choice \in PromptChoices : AnswerPrompt(h, choice))
       /\ WF_vars(Resolve(h))
       /\ WF_vars(CloseDone(h))
       /\ WF_vars(CloseAllEditors(h))
       /\ WF_vars(OpenFile(h))
       /\ WF_vars(PinEditor(h))

\* The watcher and its passes under fairness; the user's editor actions and
\* commands are not part of what the watcher is scheduled to do
FairSpec == Init /\ [][WatcherNext]_vars /\ Fairness

\* The limit prompts are answered and config.update returns
LimitFairness ==
  \A h \in Slots :
    /\ WF_vars(\E choice \in LimitChoices : LimitAnswer(h, choice))
    /\ WF_vars(\E choice \in ScopeChoices : ScopeAnswer(h, choice))
    /\ WF_vars(\E v \in InputValues \cup {NoInput} : InputAnswer(h, v))
    /\ WF_vars(UpdateDone(h))

\* Configurations with a small, zero or negative maxFilesToOpen, where added
\* files are pinned or not
LimitSettings ==
  {x \in SettingsDomain :
     /\ x.disabledRepositories = "empty"
     /\ x.promptOnNewRepository
     /\ x.pinModifiedFiles
     /\ x.maxFilesToOpen \in -1 .. (NumFiles - 1)}

\* The watcher with the limit gate in reach and host calls that may reject
LimitInit == InitWith(LimitSettings)

LimitSpec == LimitInit /\ [][WatcherNext \/ LimitNext \/ FailNext]_vars

\* A repository never seen before, with the limit gate in reach, under
\* fairness: every external call returns and every prompt is answered
FairLimitInit ==
  /\ InitWith({x \in LimitSettings : ~x.pinNewlyTrackedFiles})
  /\ storedDisabled = "unset"

FairLimitSpec ==
  FairLimitInit /\ [][WatcherNext \/ LimitNext]_vars /\ Fairness /\ LimitFairness

\* The watcher next to a second tracked repository
TwoRepoSpec == Init /\ [][WatcherNext \/ OtherRepoNext]_vars

TypeOK ==
  /\ HEAD \in BranchNames \cup {Undefined}
  /\ lastBranch \in BranchNames \cup {Undefined}
  /\ openedFiles \subseteq Files
  /\ tabPinned \subseteq tabOpen
  /\ activeEditor \in tabOpen \cup {NoFile}
  /\ \A f \in AllFiles : (tabOwner[f] = "none") <=> (f \notin tabOpen)
  /\ escaped \in BOOLEAN
  /\ \A h \in Slots : handlers[h].count <= Cardinality(handlers[h].shown)

\* ------------------------------------------------- the user edits settings
\* The user edits branchTabs.disabledRepositories: the list is empty, names
\* this repository, or names other repositories only
EditDisabledRepositories(v) ==
  /\ settings.disabledRepositories # v
  /\ settings' = [settings EXCEPT !.disabledRepositories = v]
  /\ UNCHANGED <<HEAD, lastBranch, pendingTimer, openedFiles, timers,
                 repositoryEnabledCache, storedDisabled, tabVars, handlers,
                 burstInvocations, onStartupBranch, triggers, userActs, commands,
                 ignored, cmd, escaped, other, call>>

\* The watcher under the default close policy, on a repository whose list of
\* disabled repositories the user edits
DisableInit == InitWith({x \in InitialSettings : DefaultClosePolicy(x)})

DisableNext ==
  \/ WatcherNext
  \/ \E v \in {"empty", "listed", "others"} : EditDisabledRepositories(v)

DisableSpec == DisableInit /\ [][DisableNext]_vars

\* ------------------------------------------------------------- claims
\* A handler has reached openRepositoryChangedFiles or a tab close
PassPcs == {"enable2", "resolve", "limit", "scope", "input", "update",
            "closePass", "closeAll", "open", "pin"}
InPass(h) == handlers[h].pc \in PassPcs \cup {"closeExcl"}
AllIdle == \A h \in Slots : handlers[h].pc = "idle"

\* The step is a timer expiry (the only step that counts an invocation)
TimerElapses == burstInvocations' = burstInvocations + 1

\* C1 (as claimed): for one repository at most one handler is inside a pass
\* (openRepositoryChangedFiles or a tab close) at any time.
C1_PassesNeverOverlap == Cardinality({h \in Slots : InPass(h)}) <= 1

\* C2 (as claimed): openedFiles never holds the identity of a document whose
\* tab the user opened.
C2_OnlySystemOpenedTracked == \A f \in openedFiles : tabOwner[f] # "user"

\* C3 (as claimed): with closeAllBeforeOpen off (and the toggle command never
\* used), the close step of a pass leaves every tab the user opened open.
C3_CloseStepSparesUserTabs ==
  [][(/\ ~settings.closeAllBeforeOpen
      /\ commands = 0
      /\ \E h \in Slots : handlers[h].pc = "closePass" /\ handlers'[h].pc # "closePass")
     => \A f \in tabOpen : tabOwner[f] = "user" => f \in tabOpen']_vars

\* C4 (as claimed): while no pass runs, every open tab the system opened is
\* tracked and every tracked identity has an open tab.
C4_TrackedIsExactlySystemOpen ==
  (AllIdle /\ cmd.pc = "idle")
    => /\ \A f \in tabOpen : tabOwner[f] = "ext" => f \in openedFiles
       /\ openedFiles \subseteq tabOpen

\* C5: at most one timer is armed, it is the one pendingTimer names; while a
\* timer is armed the current burst has invoked no handler, and the expiry
\* that ends the burst invokes exactly one and leaves pendingTimer undefined.
C5_OneTimerOneInvocation ==
  /\ [](/\ Cardinality(timers) <= 1
        /\ timers = (IF pendingTimer = NoTimer THEN {} ELSE {pendingTimer})
        /\ burstInvocations <= 1
        /\ (timers # {} => burstInvocations = 0))
  /\ [][TimerElapses => /\ burstInvocations' = 1
                        /\ timers' = {}
                        /\ pendingTimer' = NoTimer]_vars

\* A burst has ended with its single invocation
C5_Witness == timers = {} /\ pendingTimer = NoTimer /\ burstInvocations = 1

\* C6: a timer expiry that finds the branch name absent or equal to lastBranch
\* starts no handler work: no prompt, no pass, no tab change, openedFiles kept.
C6_UnchangedBranchIsSilent ==
  [][(TimerElapses /\ (HEAD = Undefined \/ HEAD = lastBranch))
     => UNCHANGED <<handlers, tabVars, openedFiles, repositoryEnabledCache,
                    storedDisabled, settings, triggers>>]_vars

\* After a pass left tracked tabs, HEAD became absent and the timer elapsed
C6_Witness ==
  /\ HEAD = Undefined /\ lastBranch = Undefined
  /\ timers = {} /\ burstInvocations = 1
  /\ openedFiles # {} /\ openedFiles \subseteq tabOpen
  /\ AllIdle

\* A handler waits for the answer to the enablement prompt
AtPrompt(h) == handlers[h].pc \in {"enable1", "enable2"}

C8_NoPassOnStartupBranch ==
  onStartupBranch => \A h \in Slots : handlers[h].pc \notin PassPcs

\* C9 (as claimed): with closeAllOnExcludedBranch set, when the handler of a
\* change to an excluded branch on an enabled repository returns and no other
\* handler or command is active, no tab the system opened is left open and
\* openedFiles is empty.
C9_ExcludedClosesSystemTabs ==
  [][(/\ settings.closeAllOnExcludedBranch
      /\ commands = 0
      /\ AllIdle'
      /\ \/ \E h \in Slots : handlers[h].pc = "closeExcl"
         \/ /\ TimerElapses /\ AllIdle
            /\ ~(HEAD = Undefined \/ HEAD = lastBranch)
            /\ BranchExcluded(HEAD)
            /\ repositoryEnabledCache' = "yes")
     => /\ openedFiles' = {}
        /\ \A f \in tabOpen' : tabOwner'[f] # "ext"]_vars

\* C10 (as claimed): with closeAllOnExcludedBranch on, on an enabled
\* repository settled on an excluded branch with no timer, handler or command
\* pending, no extension-opened tab is open and openedFiles is empty.
C10_SettledExcludedIsClean ==
  (/\ settings.closeAllOnExcludedBranch
   /\ repositoryEnabledCache = "yes"
   /\ commands = 0
   /\ BranchExcluded(HEAD) /\ lastBranch = HEAD
   /\ timers = {} /\ AllIdle)
    => /\ openedFiles = {}
       /\ \A f \in tabOpen : tabOwner[f] # "ext"

\* C11: notifications, timer restarts, timer expiries and branch changes leave
\* every handler that is inside a pass exactly where it is, and under fairness
\* (host calls return, prompts are answered) every handler inside a pass
\* eventually returns.
C11_PassRunsToCompletion ==
  /\ [][\A h \in Slots :
          (InPass(h) /\ (timers' # timers \/ pendingTimer' # pendingTimer
                         \/ TimerElapses \/ HEAD' # HEAD))
          => handlers'[h] = handlers[h]]_vars
  /\ \A h \in Slots : InPass(h) ~> (handlers[h].pc = "idle")

\* A pass is past its limit prompt and in its open loop while a new timer is
\* armed after a further branch change
C11_Witness ==
  /\ \E h \in Slots : handlers[h].pc = "open" /\ handlers[h].max > 0
                       /\ Cardinality(handlers[h].rest) > handlers[h].max
  /\ timers # {} /\ HEAD # lastBranch

\* C12: no failure inside a watcher-triggered pass escapes handleRepositoryChange:
\* whichever step fails, the handler's promise resolves.  The rejections of
\* tabGroups.close and of workbench.action.closeAllEditors are awaited outside
\* every try block, so they reject the promise the timer callback discards.
C12_NoFailureEscapes == ~escaped

\* C13: a pass whose survivors exceed a positive maxFilesToOpen stops at the
\* confirmation prompt before it has touched anything, and when the prompt is
\* not answered Open it ends there: neither step opens or closes a tab or
\* changes openedFiles.
C13_DeclinedLimitTouchesNothing ==
  [][\A h \in Slots :
       /\ (handlers[h].pc = "resolve"
            /\ handlers'[h].pc \notin {"resolve", "idle", "limit"})
           => ~LimitExceeded(Cardinality(handlers'[h].rest), handlers'[h].max)
       /\ (handlers[h].pc # "limit" /\ handlers'[h].pc = "limit")
           => (tabVars' = tabVars /\ openedFiles' = openedFiles)
       /\ (handlers[h].pc = "limit" /\ handlers'[h].pc = "idle")
           => (tabVars' = tabVars /\ openedFiles' = openedFiles)]_vars
C13_Witness ==
  \E h \in Slots :
    /\ handlers[h].pc = "limit"
    /\ LimitExceeded(Cardinality(handlers[h].rest), handlers[h].max)
    /\ openedFiles \cap tabOpen # {}

\* C14: with a positive maxFilesToOpen a pass never opens more than
\* maxFilesToOpen files.  openedCount is incremented only after the pin command
\* returned, so a file that was shown and whose pin command rejected is open
\* without being counted, and the loop goes on to show one file more.
C14_NeverMoreThanMax ==
  \A h \in Slots :
    handlers[h].max > 0 => Cardinality(handlers[h].shown) <= handlers[h].max

\* C15: a pass that read a zero or negative maxFilesToOpen never shows the
\* limit prompt (nor the questions behind it), and it ends only after an open
\* has been attempted for the last surviving file.  The limit logic does that;
\* a rejected close call ends the pass before the loop (C12).
C15_NonPositiveMaxIsUnlimited ==
  [][\A h \in Slots :
       /\ handlers'[h].max <= 0
           => handlers'[h].pc \notin {"limit", "scope", "input", "update"}
       /\ (/\ handlers[h].max <= 0
           /\ handlers[h].pc \in {"closePass", "closeAll", "open", "pin"}
           /\ handlers'[h].pc = "idle")
          => (/\ handlers[h].pc \in {"open", "pin"}
              /\ Cardinality(handlers[h].rest) = 1)]_vars

\* C16: under the default close policy a pass that is past its close step and
\* has not yet shown a file finds openedFiles empty, hence no open tab of a
\* tracked document.  A pass that overlaps it (C1) tracks its own files in
\* between.
C16_ClearedBeforeFirstOpen ==
  \A h \in Slots :
    (/\ ~settings.closePinnedTabsOnBranchChange
     /\ handlers[h].pc \in {"closeAll", "open"}
     /\ handlers[h].shown = {})
    => openedFiles = {}

\* C17: under the pinned-only close policy the close step of a pass collects
\* exactly the open tabs that are pinned and tracked; when tabGroups.close
\* returns, the collected tabs that still exist are closed and exactly the
\* collected identities are removed from openedFiles, and every other tab and
\* every other entry (tracked but not pinned, pinned but not tracked) is as it
\* was.
C17_PinnedOnlyClose ==
  [][\A h \in Slots :
       settings.closePinnedTabsOnBranchChange =>
         /\ (handlers[h].pc # "closePass" /\ handlers'[h].pc = "closePass")
            => /\ handlers'[h].toClose = tabOpen \cap tabPinned \cap openedFiles
               /\ tabVars' = tabVars /\ openedFiles' = openedFiles
         /\ (handlers[h].pc = "closePass" /\ handlers'[h].pc # "closePass")
            => /\ tabOpen' = tabOpen \ (handlers[h].toClose \ handlers[h].gone)
               /\ openedFiles' = openedFiles \ handlers[h].toClose
               /\ \A f \in AllFiles \ handlers[h].toClose :
                    /\ f \in tabOpen' <=> f \in tabOpen
                    /\ f \in tabPinned' <=> f \in tabPinned
                    /\ f \in openedFiles' <=> f \in openedFiles]_vars
C17_Witness ==
  /\ settings.closePinnedTabsOnBranchChange
  /\ \E h \in Slots :
       /\ handlers[h].pc = "closePass"
       /\ handlers[h].toClose # {}
       /\ (tabOpen \cap openedFiles) \ tabPinned # {}

\* C18: in the open loop a failed iteration does not end the loop before the
\* last file or the limit, a file that could not be opened or shown is not
\* added to openedFiles, and a file that was opened and shown is added.  The
\* add stands behind the pin command in the same try block, so a file whose
\* tab was shown and whose pin command rejected stays untracked (C4).
C18_LoopSurvivesFailures ==
  [][\A h \in Slots :
       LET rec == handlers[h]
           f == Min(rec.rest)
           moved == handlers'[h].pc # rec.pc \/ handlers'[h].rest # rec.rest
       IN (rec.pc \in {"open", "pin"} /\ moved) =>
            /\ handlers'[h].pc = "idle"
               => (rec.rest = {f} \/ (rec.max > 0 /\ rec.count + 1 >= rec.max))
            /\ (rec.pc = "open" /\ f \notin tabOpen')
               => openedFiles' = openedFiles
            /\ (rec.pc = "open" /\ handlers'[h].pc # "pin" /\ tabVars' # tabVars)
               => f \in openedFiles'
            /\ rec.pc = "pin" => f \in openedFiles']_vars

\* C19: the pin command a pass issues for a file pins that file's own tab:
\* whenever the pin step of a pass pins a tab or tracks its file, the file's
\* tab (if it is still open) is pinned afterwards.  workbench.action.pinEditor pins whichever editor
\* is active when it runs.
C19_PinHitsOwnTab ==
  [][\A h \in Slots :
       LET rec == handlers[h]
           f == Min(rec.rest)
       IN (/\ rec.pc = "pin" /\ handlers'[h].pc # "pin" /\ f \in tabOpen'
           /\ (tabPinned' # tabPinned \/ f \in openedFiles' \ openedFiles))
          => f \in tabPinned']_vars

\* C20: a step of a handler of this repository leaves the other repository's
\* lastBranch, pendingTimer and openedFiles alone, and closes no tab that the
\* other repository tracks in its openedFiles.  The closeAllEditors hard reset
\* closes every tab of the window, whichever repository tracks it.
C20_RepositoriesIndependent ==
  [][handlers' # handlers =>
       /\ other' = other
       /\ \A g \in other.openedFiles \cap tabOpen :
            g \in tabOpen' \/ g \notin other'.openedFiles]_vars

C22_RejectsOnlyOwnUpstream ==
  (call.fn = "resolveBaseRef" /\ call.done) =>
    LET override == Trim(call.configuredBase)
        up == IF call.upstream = Absent THEN <<>> ELSE Trim(call.upstream)
        cur == call.currentBranch
        own == /\ cur # Absent
               /\ \/ up = cur
                  \/ \E r \in Remotes : up = <<r, Slash>> \o cur
        fallback == IF <<"main">> \in call.refs THEN <<"main">>
                    ELSE IF <<"master">> \in call.refs THEN <<"master">>
                    ELSE Absent
    IN (~(override # <<>> /\ override \in call.refs) /\ up # <<>> /\ up \in call.refs)
       => call.result = IF own THEN fallback ELSE up

\* C23: on a status line of git diff --name-status, parseNameStatus yields for
\* a status starting with R or C the third field as a modified file (never the
\* second), for the status A the second field as added, for the status M the
\* second field as modified, and no record for any other status or when that
\* field is missing; blank lines yield nothing, and so does a failed diff.
C23_ParseAgreesWithReference ==
  (call.fn = "getChangedFiles" /\ call.done) =>
    LET st == call.status
        n == Len(call.paths)
        expected ==
          IF call.failed THEN <<>>
          ELSE IF Head(st) \in {"R", "C"}
          THEN IF n >= 2 THEN <<[path |-> call.paths[2], kind |-> "modified"]>>
               ELSE <<>>
          ELSE IF st = <<"A">> /\ n >= 1
          THEN <<[path |-> call.paths[1], kind |-> "added"]>>
          ELSE IF st = <<"M">> /\ n >= 1
          THEN <<[path |-> call.paths[1], kind |-> "modified"]>>
          ELSE <<>>
    IN call.result = expected
C23_Witness ==
  /\ call.fn = "getChangedFiles" /\ call.done
  /\ call.status = <<"R", "9">> /\ call.paths = <<<<"x">>, <<"y">>>>
  /\ call.result = <<[path |-> <<"y">>, kind |-> "modified"]>>

\* C24: when the current identity is known and the history query succeeds,
\* the author filter keeps a file iff some commit of the history output lists
\* its path and the author of the first (newest) such commit matches: on the
\* trimmed lower-cased email when the current user has an email, else on the
\* trimmed lower-cased name; the kept files are in their input order.
C24_KeepsFilesOfCurrentAuthor ==
  (call.fn = "filterChangedFilesByCurrentAuthor" /\ call.done) =>
    LET email == GetGitConfigValue(call.rawEmail)
        name == GetGitConfigValue(call.rawName)
        Lists(k, path) ==
          \E i \in 1 .. Len(call.history[k].files) : call.history[k].files[i] = path
        Newest(path) ==
          CHOOSE k \in 1 .. Len(call.history) :
            Lists(k, path) /\ \A j \in 1 .. (k - 1) : ~Lists(j, path)
        Same(u, v) == ToLowerCase(Trim(u)) = ToLowerCase(Trim(v))
        Kept(file) ==
          /\ \E k \in 1 .. Len(call.history) : Lists(k, file.path)
          /\ IF email # Absent
             THEN Same(call.history[Newest(file.path)].email, email)
             ELSE Same(call.history[Newest(file.path)].name, name)
    IN ((email # Absent \/ name # Absent) /\ ~call.logFailed)
       => call.result = SelectSeq(call.files, Kept)
C24_Witness ==
  /\ call.fn = "filterChangedFilesByCurrentAuthor" /\ call.done
  /\ call.rawEmail = <<"a">> /\ ~call.logFailed
  /\ Len(call.files) = 2 /\ Len(call.history) = 2
  /\ call.history[1] = [email |-> <<"A">>, name |-> <<"m">>, files |-> <<<<"x">>>>]
  /\ call.history[2] = [email |-> <<"b">>, name |-> <<"n">>,
                        files |-> <<<<"x">>, <<"y">>>>]
  /\ call.result = <<[path |-> <<"x">>, kind |-> "modified"]>>

\* C25: the author filter fails closed: for a non-empty input it returns the
\* empty list when neither user.email nor user.name can be read, and when the
\* history query fails.
C25_AuthorFilterFailsClosed ==
  (/\ call.fn = "filterChangedFilesByCurrentAuthor" /\ call.done
   /\ Len(call.files) > 0
   /\ \/ call.logFailed
      \/ /\ call.rawEmail = Absent \/ Trim(call.rawEmail) = <<>>
         /\ call.rawName = Absent \/ Trim(call.rawName) = <<>>)
  => call.result = <<>>
C25_Witness ==
  /\ call.fn = "filterChangedFilesByCurrentAuthor" /\ call.done
  /\ Len(call.files) = 2 /\ call.result = <<>>
  /\ call.rawEmail = <<Space>> /\ call.rawName = Absent /\ ~call.logFailed
  /\ Len(call.history) = 1 /\ Len(call.history[1].files) = 2

\* C29: every filter stage is idempotent: under a fixed configuration, the
\* stage applied to its own output returns that output.
C29_StagesIdempotent ==
  (call.fn = "stage" /\ call.done) => call.twice = call.once

\* C26: a pass opens no file whose latest author is another identity than
\* the current one (the author filter comes before every other stage).
C26_NoForeignFileOpened ==
  [][\A f \in tabOpen' \ tabOpen : f \notin call.latestAuthorOther]_vars

\* A list is a sub-list of another: its records, in the same order
RECURSIVE IsSubList(_, _)
IsSubList(sub, list) ==
  IF sub = <<>> THEN TRUE
  ELSE IF list = <<>> THEN FALSE
  ELSE IF Head(sub) = Head(list) THEN IsSubList(Tail(sub), Tail(list))
  ELSE IsSubList(sub, Tail(list))

\* C27: within a pass the stages run in the order change-kind, directory
\* exclusion, path exclusion, VCS-ignore, workspace ignore, text detection:
\* the first is given the parsed diff, each later one what the one before it
\* returned, each returns a sub-list of what it was given, a run is never
\* undone, and the files the pass opens are files of the diff.
C27_StagesInOrder ==
  [][call.fn = "openRepositoryChangedFiles" =>
       LET runs == call.ran'
           order == <<"kind", "directories", "files", "vcs", "workspace", "text">>
       IN /\ Len(runs) <= Len(order)
          /\ \A i \in 1 .. Len(runs) :
               /\ runs[i].stage = order[i]
               /\ runs[i].given = (IF i = 1 THEN call.diff ELSE runs[i - 1].returned)
               /\ IsSubList(runs[i].returned, runs[i].given)
          /\ SubSeq(runs, 1, Len(call.ran)) = call.ran
          /\ tabOpen' \ tabOpen \subseteq FileSet(call.diff)
          /\ \A h \in Slots : handlers'[h].rest \subseteq FileSet(call.diff)]_vars
C27_Witness ==
  /\ call.fn = "openRepositoryChangedFiles" /\ Len(call.ran) = 6
  /\ Len(call.diff) = 2 /\ Len(call.ran[2].returned) = 1
  /\ 2 \in tabOpen

\* A step of the resolver of a pass in which the pass finds that it has
\* nothing to open: no base ref, an empty diff, or a stage that returned an
\* empty list
FindsNothing ==
  /\ call.fn = "openRepositoryChangedFiles" /\ call' # call
  /\ \/ call.at = "baseRef" /\ ~call.baseRef
     \/ call.at = "diff" /\ call.diff = <<>>
     \/ \E i \in 1 .. Len(call.ran') : call.ran'[i].returned = <<>>

\* The step ends the pass and touches neither a tab nor openedFiles
EndsUntouched ==
  /\ call.at' = "ended"
  /\ \A h \in Slots : handlers'[h].pc = "idle"
  /\ tabVars' = tabVars
  /\ openedFiles' = openedFiles

\* C28 as stated: a pass that finds nothing to open ends there: no stage ran
\* after one that returned an empty list, no tab is closed or opened and
\* openedFiles is unchanged.
C28_NothingToOpenNoEffect ==
  [][FindsNothing =>
       /\ EndsUntouched
       /\ \A i \in 1 .. (Len(call.ran') - 1) : call.ran'[i].returned # <<>>]_vars

\* C28, amended: a pass that finds nothing to open ends there without
\* closing or opening a tab and without changing openedFiles; no stage ran
\* after one that returned an empty list, except the path-exclusion stage,
\* which is still applied to what the directory-exclusion stage returned.
C28_NothingToOpenNoEffect_Amended ==
  [][FindsNothing =>
       /\ EndsUntouched
       /\ \A i \in 1 .. (Len(call.ran') - 1) :
            call.ran'[i].returned = <<>>
            => (call.ran'[i].stage = "directories" /\ i + 1 = Len(call.ran'))]_vars
C28_Witness ==
  /\ call.fn = "openRepositoryChangedFiles" /\ call.at = "ended"
  /\ Len(call.ran) = 3 /\ call.ran[2].returned = <<>>
  /\ openedFiles = {1} /\ tabOpen = {1}

\* C30: when git check-ignore exits with 0 or 1, the VCS-ignore stage returns
\* the files it was given without the ones git ignores, and the pass opens
\* no file that git ignores.
C30_IgnoredNeverOpened ==
  [][(call.fn = "openRepositoryChangedFiles" /\ ~call.checkFailed) =>
       /\ \A i \in 1 .. Len(call.ran') :
            call.ran'[i].stage = "vcs"
            => call.ran'[i].returned = DiffOf(FileSet(call.ran'[i].given) \ call.gitIgnored)
       /\ (tabOpen' \ tabOpen) \cap call.gitIgnored = {}]_vars

\* C31: a failing diff command makes getChangedFiles return the empty list,
\* a failing ignore check makes the VCS-ignore stage return the list it was
\* given; both return, and nothing is left uncaught.
C31_FailurePoliciesAsymmetric ==
  (call.done /\ call.failed) =>
    /\ call.fn = "getChangedFiles" => call.result = <<>>
    /\ call.fn = "filterGitIgnoredFilesDirectories" => call.result = call.files
    /\ ~escaped
C31_Witness ==
  /\ call.fn = "filterGitIgnoredFilesDirectories" /\ call.done /\ call.failed
  /\ Len(call.files) = 2 /\ call.gitIgnored = {PathD}
  /\ call.result = call.files

\* C32: a malformed exclusion pattern is skipped and the well-formed ones of
\* the same list are still applied: the regex stages return the files that
\* no well-formed pattern of the list matches, and every file when no
\* pattern is well-formed.
C32_MalformedPatternSkipped ==
  (call.fn = "stage" /\ call.done /\ call.stage \in {"directories", "files"}
   /\ \E k \in 1 .. Len(call.cfg.regexes) : ParseRegex(call.cfg.regexes[k]) = NoRegex)
  => LET Matched(file) ==
           \E k \in 1 .. Len(call.cfg.regexes) :
             /\ ParseRegex(call.cfg.regexes[k]) # NoRegex
             /\ \E i \in 0 .. Len(file.path) :
                  MatchAt(ParseRegex(call.cfg.regexes[k]).pattern, file.path, i)
         Kept(file) == ~Matched(file)
     IN call.once = SelectSeq(call.files, Kept)

\* C33: a pass opens no file of the workspace ignore set it was started with
\* (in these passes the stored set does not change while the pass runs), and
\* its workspace stage returns exactly the files it was given that are not
\* in the set.
C33_ManuallyIgnoredNeverOpened ==
  [][call.fn = "openRepositoryChangedFiles" =>
       /\ (tabOpen' \ tabOpen) \cap ignored = {}
       /\ \A i \in 1 .. Len(call.ran') :
            call.ran'[i].stage = "workspace"
            => call.ran'[i].returned
                 = DiffOf(FileSet(call.ran'[i].given) \ ignored)]_vars
C33_Witness ==
  /\ call.fn = "openRepositoryChangedFiles" /\ call.at = "opening"
  /\ ignored = {NumFiles} /\ Len(call.ran) = 5
  /\ Len(call.ran[5].given) = 2 /\ Len(call.ran[5].returned) = 1
  /\ 1 \in tabOpen /\ tabOwner[1] = "ext" /\ openedFiles = {1}
  /\ \A h \in Slots : handlers[h].pc = "idle"

\* C34: in the example the list of the diff holds the modified and the added
\* file and never the deleted one, no stage is given the deleted one, the pass
\* does not end early, and once it is complete the files it has opened and
\* tracked are exactly the modified and the added one.
C34_ExampleOpensBoth ==
  call.fn = "openRepositoryChangedFiles" =>
    /\ FileSet(call.diff) = {1, 2} /\ Len(call.diff) = 2
    /\ \A i \in 1 .. Len(call.ran) : \A k \in 1 .. Len(call.ran[i].given) :
         call.ran[i].given[k].path # DeletedPath
    /\ call.at # "ended"
    /\ (call.at = "opening" /\ \A h \in Slots : handlers[h].pc = "idle")
       => /\ openedFiles = {1, 2}
          /\ tabOpen = {1, 2}
          /\ \A f \in {1, 2} : tabOwner[f] = "ext"
C34_Witness ==
  /\ call.fn = "openRepositoryChangedFiles" /\ call.at = "opening"
  /\ \A h \in Slots : handlers[h].pc = "idle"
  /\ Len(call.ran) = 6 /\ openedFiles = {1, 2} /\ tabPinned = {1}

\* The enable/disable prompt is on screen
PromptShown == \E h \in Slots : AtPrompt(h)

\* C35: the enable/disable prompt is shown at most once: once it has been on
\* screen and has gone, it is never on screen again.
C35_PromptShownOnce == [](PromptShown => [](~PromptShown => []~PromptShown))

\* C36: a repository the user disabled stays disabled: while the stored
\* decision says disabled, or the repository is listed in disabledRepositories,
\* a handler that starts (it runs the enablement check at once) returns
\* without a prompt and without a pass, whatever else the list names.
C36_DisabledStaysDisabled ==
  [][\A h \in Slots :
       (/\ storedDisabled = "yes" \/ settings.disabledRepositories = "listed"
        /\ handlers[h].pc = "idle")
       => handlers'[h].pc = "idle"]_vars

\* C37: every timer expiry leaves lastBranch at the branch name HEAD had at that
\* expiry (undefined for a detached HEAD) and nothing else writes lastBranch,
\* whatever becomes of the pass; so an expiry on the remembered branch starts
\* no handler, and an expiry on a named branch after a detached one starts one.
C37_LastBranchFollowsExpiry ==
  /\ [][TimerElapses => lastBranch' = HEAD]_vars
  /\ [][~TimerElapses => lastBranch' = lastBranch]_vars
  /\ [][(TimerElapses /\ HEAD = lastBranch) => triggers' = triggers]_vars
  /\ [][(TimerElapses /\ HEAD # Undefined /\ lastBranch = Undefined)
        => triggers' = triggers + 1]_vars

\* A detached HEAD was observed while a pass waited at the limit prompt
C37_Witness ==
  /\ HEAD = Undefined /\ lastBranch = Undefined
  /\ timers = {} /\ burstInvocations >= 1
  /\ \E h \in Slots : handlers[h].pc = "limit"

\* The files that the resolver of the pass left to open
SurvivingFiles ==
  IF call.at = "ended" THEN {} ELSE FileSet(Returned(call.ran))

\* C38: once the pass for the branch is complete and closePinnedTabsOnBranchChange
\* is off, every identity in openedFiles and every open tab that a pass opened
\* belongs to a file the resolver left to open; when a base ref was found and
\* the diff or a stage left nothing, none is tracked and none is open.
C38_OnlySurvivorsRemain ==
  (/\ call.fn = "openRepositoryChangedFiles" /\ call.at \in {"ended", "opening"}
   /\ call.baseRef
   /\ ~settings.closePinnedTabsOnBranchChange
   /\ AllIdle)
  => /\ openedFiles \subseteq SurvivingFiles
     /\ \A f \in tabOpen : tabOwner[f] = "ext" => f \in SurvivingFiles

C40_NoRefreshLost ==
  /\ [](call.inflight <= 1)
  /\ []((call.owed /\ []call.viewVisible) => <>(~call.owed))

====
